---- MODULE Spec2Model ----
(***************************************************************************)
(* PAU Vox: the feedback lifecycle as implemented by the React providers.  *)
(*                                                                         *)
(*  - Spec           the browser-only FeedbackProvider                     *)
(*                   (src/src/contexts/FeedbackContext.tsx)                *)
(*  - SpecClassifier the pure functions checkProfanity / detectPriority    *)
(*                   applied to bounded texts                              *)
(*                                                                         *)
(* Text is a sequence of one-character strings, so that toLowerCase and    *)
(* String.includes are computed, not assumed.                              *)
(***************************************************************************)
EXTENDS Integers, Sequences, FiniteSets, TLC

VARIABLES feedbacks, now, lastCall, steps, cls, token, server, cache,
          queue, notifications, unreadCount, notifStore, notifQueue, sweep,
          analytics, similar, page, inflight

vars == <<feedbacks, now, lastCall, steps, cls, token, server, cache,
          queue, notifications, unreadCount, notifStore, notifQueue, sweep,
          analytics, similar, page, inflight>>
apiVars == <<token, server, cache>>
\* the state updaters React holds until the next render
batchVars == <<queue>>
\* NotificationProvider, and the service's notification rows behind it
notifVars == <<notifications, unreadCount, notifStore, notifQueue>>
\* the overdue sweep of the service
sweepVars == <<sweep>>
\* AnalyticsPage, SimilarityDetector, App's page state, requests under way
viewVars == <<analytics, similar, page, inflight>>
extVars == <<batchVars, notifVars, sweepVars, viewVars>>

(***************************************************************************)
(* Bounds                                                                  *)
(***************************************************************************)
\* number of provider calls (and clock ticks) explored from the initial state
MaxSteps == 3
\* number of calls on the API-backed provider explored from the initial state
MaxApiSteps == 3
\* number of vocabulary words joined into one classifier input
MaxWords == 2
\* number of state updaters React holds between two renders
MaxQueue == 2
\* number of notification calls and service events explored from the initial state
MaxNotifSteps == 4
\* number of sweep requests, sweep steps and record events explored
MaxSweepSteps == 5
\* number of records the service holds when analytics are computed
MaxRecords == 3
\* number of AnalyticsPage requests explored from the initial state
MaxAnalyticsSteps == 4

(***************************************************************************)
(* Text                                                                    *)
(***************************************************************************)
UpperLetters ==
  <<"A","B","C","D","E","F","G","H","I","J","K","L","M",
    "N","O","P","Q","R","S","T","U","V","W","X","Y","Z">>

LowerLetters ==
  <<"a","b","c","d","e","f","g","h","i","j","k","l","m",
    "n","o","p","q","r","s","t","u","v","w","x","y","z">>

charToLowerCase(c) ==
  IF \E i \in 1..Len(UpperLetters) : UpperLetters[i] = c
  THEN LowerLetters[CHOOSE i \in 1..Len(UpperLetters) : UpperLetters[i] = c]
  ELSE c

\* String.prototype.toLowerCase
toLowerCase(text) == [i \in 1..Len(text) |-> charToLowerCase(text[i])]

\* String.prototype.includes
includes(text, word) ==
  \E i \in 0..(Len(text) - Len(word)) : SubSeq(text, i + 1, i + Len(word)) = word

RECURSIVE JoinWords(_)
\* words separated by one space
JoinWords(ws) ==
  IF Len(ws) = 0 THEN <<>>
  ELSE IF Len(ws) = 1 THEN ws[1]
  ELSE ws[1] \o <<" ">> \o JoinWords(Tail(ws))

(***************************************************************************)
(* Classifier                                                              *)
(***************************************************************************)
profanityList ==
  << <<"d","a","m","n">>, <<"h","e","l","l">>, <<"s","t","u","p","i","d">>,
     <<"i","d","i","o","t">>, <<"f","o","o","l">>, <<"c","r","a","p">>,
     <<"s","u","c","k">> >>

urgentKeywords ==
  << <<"u","r","g","e","n","t">>, <<"e","m","e","r","g","e","n","c","y">>,
     <<"d","a","n","g","e","r">>, <<"f","i","r","e">>, <<"f","l","o","o","d">>,
     <<"i","m","m","e","d","i","a","t","e">> >>

highKeywords ==
  << <<"b","r","o","k","e","n">>, <<"n","o","t"," ","w","o","r","k","i","n","g">>,
     <<"s","e","v","e","r","e">>, <<"s","e","r","i","o","u","s">>,
     <<"c","r","i","t","i","c","a","l">> >>

\* a bug checkProfanity could have: the blocklist compared case-sensitively
checkProfanity_caseSensitive(text) ==
  \E i \in 1..Len(profanityList) : includes(text, profanityList[i])

checkProfanity(text) ==
  LET lowerText == toLowerCase(text)
  IN  \E i \in 1..Len(profanityList) : includes(lowerText, profanityList[i])

\* a bug detectPriority could have: the high tier tested before the urgent tier
detectPriority_highFirst(description) ==
  LET lowerDesc == toLowerCase(description)
  IN  IF \E i \in 1..Len(highKeywords) : includes(lowerDesc, highKeywords[i])
      THEN "high"
      ELSE IF \E i \in 1..Len(urgentKeywords) : includes(lowerDesc, urgentKeywords[i])
      THEN "urgent"
      ELSE "medium"

detectPriority(description) ==
  LET lowerDesc == toLowerCase(description)
  IN  IF \E i \in 1..Len(urgentKeywords) : includes(lowerDesc, urgentKeywords[i])
      THEN "urgent"
      ELSE IF \E i \in 1..Len(highKeywords) : includes(lowerDesc, highKeywords[i])
      THEN "high"
      ELSE "medium"

\* words the classifier inputs are built from
Vocabulary ==
  { <<"U","R","G","E","N","T">>, <<"f","i","r","e">>, <<"F","l","o","o","d">>,
    <<"B","r","o","k","e","n">>, <<"n","o","t">>, <<"w","o","r","k","i","n","g">>,
    <<"c","r","i","t","i","c","a","l">>, <<"s","h","e","l","l">>,
    <<"D","A","M","N">>, <<"o","k">> }

Texts ==
  { JoinWords(ws) : ws \in UNION { [1..n -> Vocabulary] : n \in 0..MaxWords } }

NotClassified == [text |-> <<>>, priority |-> "none", profane |-> "none"]

ClassifierInit ==
  \E t \in Texts : cls = [text |-> t, priority |-> "none", profane |-> "none"]

ApplyDetectPriority ==
  /\ cls.priority = "none"
  /\ cls' = [cls EXCEPT !.priority = detectPriority(cls.text)]
  /\ UNCHANGED <<feedbacks, now, lastCall, steps, apiVars, extVars>>

ApplyCheckProfanity ==
  /\ cls.profane = "none"
  /\ cls' = [cls EXCEPT !.profane = IF checkProfanity(cls.text) THEN "yes" ELSE "no"]
  /\ UNCHANGED <<feedbacks, now, lastCall, steps, apiVars, extVars>>

(***************************************************************************)
(* Browser-only FeedbackProvider                                           *)
(***************************************************************************)
undefined == "undefined"
null == "null"

FeedbackStatus == {"pending", "in_review", "assigned", "working", "resolved", "rejected"}

\* Date stamps are left out of the records; an absent statusHistory reads as
\* the empty list, as every reader takes it (f.statusHistory || []).
mockFeedbacks ==
  << [ id |-> 1, type |-> "academic", category |-> "Course Content",
       subject |-> <<"C","a","l","c","u","l","u","s"," ","c","o","u","r","s","e"," ","t","o","o"," ","d","i","f","f","i","c","u","l","t">>,
       description |-> <<"T","h","e"," ","p","a","c","e"," ","o","f"," ","t","h","e"," ","c","a","l","c","u","l","u","s"," ","c","o","u","r","s","e"," ","i","s"," ","t","o","o"," ","f","a","s","t">>,
       status |-> "in_review", priority |-> "medium", isAnonymous |-> FALSE,
       studentId |-> "1", assignedTo |-> undefined, resolutionSummary |-> undefined,
       internalNotes |-> <<>>, statusHistory |-> <<>> ],
     [ id |-> 2, type |-> "non_academic", category |-> "Hostel",
       subject |-> <<"N","o"," ","A","C"," ","i","n"," ","B","l","o","c","k"," ","B">>,
       description |-> <<"T","h","e"," ","a","i","r"," ","c","o","n","d","i","t","i","o","n","i","n","g"," ","h","a","s"," ","n","o","t"," ","b","e","e","n"," ","w","o","r","k","i","n","g"," ","i","n"," ","B","l","o","c","k"," ","B">>,
       status |-> "assigned", priority |-> "high", isAnonymous |-> TRUE,
       studentId |-> "2", assignedTo |-> "facilities_management",
       resolutionSummary |-> undefined,
       internalNotes |-> <<>>, statusHistory |-> <<>> ] >>

\* Date.now() lies after the instants whose decimal form is a mock id
FirstInstant == mockFeedbacks[Len(mockFeedbacks)].id + 1

\* what FeedbackForm hands to submitFeedback
Drafts ==
  { [ type |-> "academic", category |-> "Course Content",
      subject |-> <<"C","l","a","s","s"," ","p","a","c","e">>,
      description |-> <<"T","h","i","s"," ","i","s"," ","b","r","o","k","e","n"," ","a","n","d"," ","u","r","g","e","n","t",","," ","p","l","e","a","s","e"," ","h","e","l","p">>,
      isAnonymous |-> FALSE, studentId |-> "1" ],
    [ type |-> "non_academic", category |-> "Hostel",
      subject |-> <<"N","o"," ","A","C">>,
      description |-> <<"A","C"," ","n","o","t"," ","w","o","r","k","i","n","g">>,
      isAnonymous |-> TRUE, studentId |-> "2" ],
    [ type |-> "academic", category |-> "Course Content",
      subject |-> <<"C","l","a","s","s"," ","p","a","c","e">>,
      description |-> <<"t","o","o"," ","f","a","s","t">>,
      isAnonymous |-> FALSE, studentId |-> "1" ],
    [ type |-> "academic", category |-> "Course Content",
      subject |-> <<"C","l","a","s","s"," ","p","a","c","e">>,
      description |-> <<"D","A","M","N"," ","t","h","i","s"," ","i","s"," ","b","r","o","k","e","n">>,
      isAnonymous |-> FALSE, studentId |-> "1" ],
    [ type |-> "non_academic", category |-> "Hostel",
      subject |-> <<"H","o","s","t","e","l"," ","H","e","l","l">>,
      description |-> <<"t","o","o"," ","h","o","t">>,
      isAnonymous |-> FALSE, studentId |-> "2" ] }

NoteTexts == {"note"}
Authors == {"staff_1"}

\* ids a caller can pass: those of the list, and one that no record has
\* (f.id === id is false for every record)
UnknownId == 0
CallIds == { feedbacks[i].id : i \in 1..Len(feedbacks) } \cup {UnknownId}

NoCall == [op |-> "none", id |-> UnknownId, arg |-> undefined, result |-> "none"]

\* the parts of the application a specification does not exercise stay idle
BatchIdle == queue = <<>>
NotifIdle ==
  /\ notifications = <<>> /\ unreadCount = 0
  /\ notifStore = <<>> /\ notifQueue = <<>>
SweepIdle == sweep = <<>>
ViewIdle == analytics = <<>> /\ similar = <<>> /\ page = <<>> /\ inflight = <<>>
ExtInit == BatchIdle /\ NotifIdle /\ SweepIdle /\ ViewIdle

Init ==
  /\ feedbacks = mockFeedbacks
  /\ now = FirstInstant
  /\ lastCall = NoCall
  /\ steps = 0
  /\ cls = NotClassified
  /\ token = null /\ server = <<>> /\ cache = <<>>
  /\ ExtInit

\* the clock behind Date.now() advances
Tick ==
  /\ steps < MaxSteps
  /\ now' = now + 1
  /\ steps' = steps + 1
  /\ lastCall' = [op |-> "tick", id |-> UnknownId, arg |-> undefined, result |-> "ok"]
  /\ UNCHANGED <<feedbacks, cls, apiVars, extVars>>

newFeedback(feedback, priority) ==
  [ id |-> now, type |-> feedback.type, category |-> feedback.category,
    subject |-> feedback.subject, description |-> feedback.description,
    status |-> "pending", priority |-> priority,
    isAnonymous |-> feedback.isAnonymous, studentId |-> feedback.studentId,
    assignedTo |-> undefined, resolutionSummary |-> undefined,
    internalNotes |-> <<>>, statusHistory |-> <<>> ]

submitFeedback(feedback) ==
  /\ steps < MaxSteps
  /\ steps' = steps + 1
  /\ IF checkProfanity(feedback.description) \/ checkProfanity(feedback.subject)
     THEN /\ lastCall' = [op |-> "submitFeedback", id |-> UnknownId, arg |-> feedback,
                          result |-> "Error: inappropriate language"]
          /\ UNCHANGED feedbacks
     ELSE /\ feedbacks' = Append(feedbacks, newFeedback(feedback, detectPriority(feedback.description)))
          /\ lastCall' = [op |-> "submitFeedback", id |-> now, arg |-> feedback, result |-> "ok"]
  /\ UNCHANGED <<now, cls, apiVars, extVars>>

\* a bug updateFeedbackStatus could have: the classifier run again on update
updateFeedbackStatus_reclassify(id, status) ==
  /\ steps < MaxSteps
  /\ steps' = steps + 1
  /\ feedbacks' = [i \in 1..Len(feedbacks) |->
                     IF feedbacks[i].id = id
                     THEN [feedbacks[i] EXCEPT !.status = status,
                             !.priority = detectPriority(feedbacks[i].description)]
                     ELSE feedbacks[i]]
  /\ lastCall' = [op |-> "updateFeedbackStatus", id |-> id, arg |-> status, result |-> "ok"]
  /\ UNCHANGED <<now, cls, apiVars, extVars>>

updateFeedbackStatus(id, status) ==
  /\ steps < MaxSteps
  /\ steps' = steps + 1
  /\ feedbacks' = [i \in 1..Len(feedbacks) |->
                     IF feedbacks[i].id = id
                     THEN [feedbacks[i] EXCEPT !.status = status]
                     ELSE feedbacks[i]]
  /\ lastCall' = [op |-> "updateFeedbackStatus", id |-> id, arg |-> status, result |-> "ok"]
  /\ UNCHANGED <<now, cls, apiVars, extVars>>

addInternalNote(feedbackId, note, author) ==
  /\ steps < MaxSteps
  /\ steps' = steps + 1
  /\ feedbacks' = [i \in 1..Len(feedbacks) |->
                     IF feedbacks[i].id = feedbackId
                     THEN [feedbacks[i] EXCEPT !.internalNotes =
                             Append(@, [id |-> now, text |-> note, author |-> author])]
                     ELSE feedbacks[i]]
  /\ lastCall' = [op |-> "addInternalNote", id |-> feedbackId, arg |-> note, result |-> "ok"]
  /\ UNCHANGED <<now, cls, apiVars, extVars>>

\* FeedbackForm.handleSubmit: the form's own gate, then submitFeedback
handleSubmit(draft) ==
  IF checkProfanity(draft.subject) \/ checkProfanity(draft.description)
  THEN /\ steps < MaxSteps
       /\ steps' = steps + 1
       /\ lastCall' = [op |-> "handleSubmit", id |-> UnknownId, arg |-> draft,
                       result |-> "Error: inappropriate language"]
       /\ UNCHANGED <<feedbacks, now, cls, apiVars, extVars>>
  ELSE submitFeedback(draft)

\* the read paths of the provider
getUserFeedbacks(userId) ==
  SelectSeq(feedbacks, LAMBDA f : f.studentId = userId)

getAssignedFeedbacks(assignedTo) ==
  SelectSeq(feedbacks, LAMBDA f : f.assignedTo = assignedTo)

getAllFeedbacks == feedbacks

Next ==
  \/ Tick
  \/ \E feedback \in Drafts : submitFeedback(feedback)
  \/ \E draft \in Drafts : handleSubmit(draft)
  \/ \E id \in CallIds, status \in FeedbackStatus : updateFeedbackStatus(id, status)
  \/ \E id \in CallIds, note \in NoteTexts, author \in Authors : addInternalNote(id, note, author)

Spec == Init /\ [][Next]_vars

(***************************************************************************)
(* The same provider when several mutators are called before React renders *)
(* (AssignmentModal.handleAssign calls updateFeedbackStatus and            *)
(* addInternalNote back to back).  setFeedbacks(prev => ...) only queues   *)
(* the updater; the render applies the queued updaters in call order, each *)
(* to the result of the one before.                                        *)
(***************************************************************************)
\* the updater updateFeedbackStatus hands to setFeedbacks
updateFeedbackStatusUpdater(prev, id, status) ==
  [i \in 1..Len(prev) |->
     IF prev[i].id = id THEN [prev[i] EXCEPT !.status = status] ELSE prev[i]]

\* the updater addInternalNote hands to setFeedbacks; Date.now() is read
\* when the updater runs
addInternalNoteUpdater(prev, feedbackId, note, author) ==
  [i \in 1..Len(prev) |->
     IF prev[i].id = feedbackId
     THEN [prev[i] EXCEPT !.internalNotes =
             Append(@, [id |-> now, text |-> note, author |-> author])]
     ELSE prev[i]]

applyUpdater(prev, u) ==
  IF u.op = "updateFeedbackStatus"
  THEN updateFeedbackStatusUpdater(prev, u.id, u.arg)
  ELSE addInternalNoteUpdater(prev, u.id, u.arg, u.author)

RECURSIVE applyUpdaters(_, _)
applyUpdaters(prev, us) ==
  IF us = <<>> THEN prev
  ELSE applyUpdaters(applyUpdater(prev, Head(us)), Tail(us))

setFeedbacks(u) ==
  /\ steps < MaxSteps
  /\ Len(queue) < MaxQueue
  /\ steps' = steps + 1
  /\ queue' = Append(queue, u)
  /\ lastCall' = [op |-> "setFeedbacks", id |-> u.id, arg |-> u.arg, result |-> "queued"]
  /\ UNCHANGED <<feedbacks, now, cls, apiVars, notifVars, sweepVars, viewVars>>

queuedUpdateFeedbackStatus(id, status) ==
  setFeedbacks([op |-> "updateFeedbackStatus", id |-> id, arg |-> status, author |-> undefined])

queuedAddInternalNote(feedbackId, note, author) ==
  setFeedbacks([op |-> "addInternalNote", id |-> feedbackId, arg |-> note, author |-> author])

render ==
  /\ queue # <<>>
  /\ steps < MaxSteps
  /\ steps' = steps + 1
  /\ feedbacks' = applyUpdaters(feedbacks, queue)
  /\ queue' = <<>>
  /\ lastCall' = [op |-> "render", id |-> UnknownId, arg |-> queue, result |-> "ok"]
  /\ UNCHANGED <<now, cls, apiVars, notifVars, sweepVars, viewVars>>

NextBatch ==
  \/ \E id \in CallIds, status \in FeedbackStatus : queuedUpdateFeedbackStatus(id, status)
  \/ \E id \in CallIds, note \in NoteTexts, author \in Authors :
        queuedAddInternalNote(id, note, author)
  \/ render

SpecBatch == Init /\ [][NextBatch]_vars

(***************************************************************************)
(* The classifier applied to every bounded text                            *)
(***************************************************************************)
InitClassifier ==
  /\ feedbacks = mockFeedbacks
  /\ now = FirstInstant
  /\ lastCall = NoCall
  /\ steps = 0
  /\ ClassifierInit
  /\ token = null /\ server = <<>> /\ cache = <<>>
  /\ ExtInit

NextClassifier == ApplyDetectPriority \/ ApplyCheckProfanity

SpecClassifier == InitClassifier /\ [][NextClassifier]_vars

(***************************************************************************)
(* The feedback service behind /api/v1/feedback.  Its code is not part of  *)
(* the sources at hand; it is written down from the specification          *)
(* (sections 3, 4.1-4.3, 7).                                               *)
(***************************************************************************)
Principals == {"manager_1", "manager_2"}
StaffDirectory == {"staff_1", "staff_2"}

ServerError(kind, store) == [kind |-> kind, store |-> store, item |-> [id |-> UnknownId]]
ServerOk(store, id) == [kind |-> "ok", store |-> store, item |-> store[id]]

\* the note of an entry is a list of words; the empty list is no note
HistoryEntry(status, principal, note) ==
  [status |-> status, updated_by_id |-> principal, note |-> note]

ServerSubmit(store, principal, body) ==
  IF checkProfanity(body.subject) \/ checkProfanity(body.description)
  THEN ServerError("ValidationError", store)
  ELSE LET id == Len(store) + 1
           created ==
             [ id |-> id, type |-> body.type, category |-> body.category,
               subject |-> body.subject, description |-> body.description,
               status |-> "pending", priority |-> detectPriority(body.description),
               is_anonymous |-> body.is_anonymous, student_id |-> principal,
               assigned_to_id |-> null, assigned_by_id |-> null, due_at |-> null,
               resolution_summary |-> null, notes |-> <<>>,
               status_history |-> <<HistoryEntry("pending", principal, <<>>)>> ]
       IN  ServerOk(Append(store, created), id)

ServerUpdateStatus(store, principal, id, status, resolution_summary) ==
  IF id \notin 1..Len(store) THEN ServerError("NotFoundError", store)
  ELSE IF store[id].status \in {"resolved", "rejected"}
  THEN ServerError("InvalidStateError", store)
  ELSE IF status = "resolved" /\ resolution_summary = null
  THEN ServerError("ValidationError", store)
  ELSE IF /\ status # store[id].status
          /\ <<store[id].status, status>> \notin
               { <<"pending", "in_review">>, <<"pending", "assigned">>,
                 <<"in_review", "assigned">>, <<"assigned", "working">>,
                 <<"working", "resolved">>, <<"pending", "rejected">>,
                 <<"in_review", "rejected">>, <<"assigned", "rejected">>,
                 <<"working", "rejected">> }
  THEN ServerError("InvalidStateError", store)
  ELSE ServerOk(
         [store EXCEPT ![id] =
            [@ EXCEPT !.status = status,
                      !.resolution_summary =
                         IF status = "resolved" THEN resolution_summary ELSE @,
                      !.status_history = Append(@, HistoryEntry(status, principal, <<>>))]],
         id)

ServerAssign(store, principal, id, assignee_id, note, due_at) ==
  IF id \notin 1..Len(store) THEN ServerError("NotFoundError", store)
  ELSE IF store[id].status \in {"resolved", "rejected"}
  THEN ServerError("InvalidStateError", store)
  ELSE IF assignee_id \notin StaffDirectory THEN ServerError("NotFoundError", store)
  ELSE ServerOk(
         [store EXCEPT ![id] =
            [@ EXCEPT !.assigned_to_id = assignee_id,
                      !.assigned_by_id = principal,
                      !.due_at = due_at,
                      !.status = "assigned",
                      !.status_history =
                         Append(@, HistoryEntry("assigned", principal, note \o <<"to", assignee_id>>))]],
         id)

ServerAddNote(store, principal, id, text) ==
  IF id \notin 1..Len(store) THEN ServerError("NotFoundError", store)
  ELSE ServerOk(
         [store EXCEPT ![id] =
            [@ EXCEPT !.notes = Append(@, [author_id |-> principal, text |-> text]),
                      !.status_history =
                         Append(@, HistoryEntry(store[id].status, principal, <<>>))]],
         id)

\* stores that earlier sessions have left behind
SeedDraft ==
  [ type |-> "non_academic", category |-> "Hostel",
    subject |-> <<"N","o"," ","A","C">>,
    description |-> <<"A","C"," ","n","o","t"," ","w","o","r","k","i","n","g">>,
    is_anonymous |-> FALSE ]

SeedPending == ServerSubmit(<<>>, "student_1", SeedDraft).store
SeedWorking ==
  ServerUpdateStatus(
    ServerAssign(SeedPending, "manager_1", 1, "staff_1", <<"Assigned by", "Ada">>, null).store,
    "staff_1", 1, "working", null).store
SeedResolved == ServerUpdateStatus(SeedWorking, "staff_1", 1, "resolved", "fixed").store
SeedRejected == ServerUpdateStatus(SeedPending, "manager_1", 1, "rejected", null).store

SeedStores == {<<>>, SeedPending, SeedWorking, SeedResolved, SeedRejected}

(***************************************************************************)
(* API-backed FeedbackProvider                                             *)
(***************************************************************************)
mapFields(input) ==
  [ id |-> input.id, type |-> input.type, category |-> input.category,
    subject |-> input.subject, description |-> input.description,
    status |-> input.status, priority |-> input.priority,
    isAnonymous |-> input.is_anonymous, studentId |-> input.student_id,
    assignedTo |-> IF input.assigned_to_id = null THEN undefined ELSE input.assigned_to_id,
    assignedBy |-> IF input.assigned_by_id = null THEN undefined ELSE input.assigned_by_id,
    dueAt |-> IF input.due_at = null THEN undefined ELSE input.due_at,
    resolutionSummary |->
      IF input.resolution_summary = null THEN undefined ELSE input.resolution_summary,
    internalNotes |->
      [k \in 1..Len(input.notes) |->
         [text |-> input.notes[k].text, author |-> input.notes[k].author_id]],
    statusHistory |->
      [k \in 1..Len(input.status_history) |->
         [ status |-> input.status_history[k].status,
           updatedBy |-> input.status_history[k].updated_by_id,
           note |-> input.status_history[k].note ]] ]

\* a bug mapFeedback could have: the history listed newest entry first
mapFeedback_newestFirst(input) ==
  [ mapFields(input) EXCEPT
      !.statusHistory =
        [k \in 1..Len(input.status_history) |->
           mapFields(input).statusHistory[Len(input.status_history) + 1 - k]] ]

\* a bug mapFeedback could have: assignedTo read from the assigner's field
mapFeedback_assigneeFromAssigner(input) ==
  [ mapFields(input) EXCEPT
      !.assignedTo = IF input.assigned_by_id = null THEN undefined ELSE input.assigned_by_id ]

\* a bug mapFeedback could have: the assignee shown only while the record is open
mapFeedback_assigneeWhileOpen(input) ==
  [ mapFields(input) EXCEPT
      !.assignedTo = IF input.status \in {"resolved", "rejected"} THEN undefined ELSE @ ]

mapFeedback(input) ==
  [ id |-> input.id, type |-> input.type, category |-> input.category,
    subject |-> input.subject, description |-> input.description,
    status |-> input.status, priority |-> input.priority,
    isAnonymous |-> input.is_anonymous, studentId |-> input.student_id,
    assignedTo |-> IF input.assigned_to_id = null THEN undefined ELSE input.assigned_to_id,
    assignedBy |-> IF input.assigned_by_id = null THEN undefined ELSE input.assigned_by_id,
    dueAt |-> IF input.due_at = null THEN undefined ELSE input.due_at,
    resolutionSummary |->
      IF input.resolution_summary = null THEN undefined ELSE input.resolution_summary,
    internalNotes |->
      [k \in 1..Len(input.notes) |->
         [text |-> input.notes[k].text, author |-> input.notes[k].author_id]],
    statusHistory |->
      [k \in 1..Len(input.status_history) |->
         [ status |-> input.status_history[k].status,
           updatedBy |-> input.status_history[k].updated_by_id,
           note |-> input.status_history[k].note ]] ]

\* JSON.stringify leaves an undefined member out of the request body
bodyValue(v) == IF v = undefined THEN null ELSE v

\* setFeedbacks(prev => prev.map(item => item.id === id ? mapFeedback(updated) : item))
replaceCached(prev, id, updated) ==
  [k \in 1..Len(prev) |-> IF prev[k].id = id THEN mapFeedback(updated) ELSE prev[k]]

InitApi ==
  /\ feedbacks = mockFeedbacks
  /\ now = FirstInstant
  /\ lastCall = NoCall
  /\ steps = 0
  /\ cls = NotClassified
  /\ token = null
  /\ server \in SeedStores
  /\ cache = <<>>
  /\ ExtInit

ApiStep(op, id, arg, result) ==
  /\ steps < MaxApiSteps
  /\ steps' = steps + 1
  /\ lastCall' = [op |-> op, id |-> id, arg |-> arg, result |-> result]
  /\ UNCHANGED <<feedbacks, now, cls, extVars>>

\* AuthProvider hands the provider a token (login, or a stored session)
login(principal) ==
  /\ token = null
  /\ token' = principal
  /\ ApiStep("login", UnknownId, principal, "ok")
  /\ UNCHANGED <<server, cache>>

logout ==
  /\ token # null
  /\ token' = null
  /\ ApiStep("logout", UnknownId, undefined, "ok")
  /\ UNCHANGED <<server, cache>>

\* the request of refreshFeedbacks goes through, or fails on the way
refreshFeedbacks(reachable) ==
  /\ IF token = null
     THEN cache' = <<>> /\ ApiStep("refreshFeedbacks", UnknownId, undefined, "ok")
     ELSE IF reachable
     THEN /\ cache' = [k \in 1..Len(server) |-> mapFeedback(server[k])]
          /\ ApiStep("refreshFeedbacks", UnknownId, undefined, "ok")
     ELSE /\ cache' = <<>>
          /\ ApiStep("refreshFeedbacks", UnknownId, undefined, "ok")
  /\ UNCHANGED <<token, server>>

apiSubmitFeedback(feedback) ==
  IF token = null
  THEN /\ ApiStep("submitFeedback", UnknownId, feedback, "Error: log in")
       /\ UNCHANGED <<token, server, cache>>
  ELSE LET r == ServerSubmit(server, token,
                  [ type |-> feedback.type, category |-> feedback.category,
                    subject |-> feedback.subject, description |-> feedback.description,
                    is_anonymous |-> feedback.isAnonymous ])
       IN  /\ server' = r.store
           /\ cache' = IF r.kind = "ok" THEN <<mapFeedback(r.item)>> \o cache ELSE cache
           /\ ApiStep("submitFeedback", r.item.id, feedback, r.kind)
           /\ UNCHANGED token

apiUpdateFeedbackStatus(id, status, resolutionSummary) ==
  IF token = null
  THEN /\ ApiStep("updateFeedbackStatus", id, <<status, resolutionSummary>>, "Error: log in")
       /\ UNCHANGED <<token, server, cache>>
  ELSE LET r == ServerUpdateStatus(server, token, id, status, bodyValue(resolutionSummary))
       IN  /\ server' = r.store
           /\ cache' = IF r.kind = "ok" THEN replaceCached(cache, id, r.item) ELSE cache
           /\ ApiStep("updateFeedbackStatus", id, <<status, resolutionSummary>>, r.kind)
           /\ UNCHANGED token

\* a bug assignFeedback could have: the cache is written before the answer is in
assignFeedback_optimistic(id, assignedTo, assignedBy, dueAt) ==
  IF token = null
  THEN /\ ApiStep("assignFeedback", id, <<assignedTo, assignedBy, dueAt>>, "Error: log in")
       /\ UNCHANGED <<token, server, cache>>
  ELSE LET r == ServerAssign(server, token, id, assignedTo, <<"Assigned by", assignedBy>>, bodyValue(dueAt))
       IN  /\ server' = r.store
           /\ cache' = [k \in 1..Len(cache) |->
                          IF cache[k].id = id
                          THEN [cache[k] EXCEPT !.assignedTo = assignedTo,
                                                !.assignedBy = assignedBy,
                                                !.dueAt = dueAt,
                                                !.status = "assigned"]
                          ELSE cache[k]]
           /\ ApiStep("assignFeedback", id, <<assignedTo, assignedBy, dueAt>>, r.kind)
           /\ UNCHANGED token

assignFeedback(id, assignedTo, assignedBy, dueAt) ==
  IF token = null
  THEN /\ ApiStep("assignFeedback", id, <<assignedTo, assignedBy, dueAt>>, "Error: log in")
       /\ UNCHANGED <<token, server, cache>>
  ELSE LET r == ServerAssign(server, token, id, assignedTo, <<"Assigned by", assignedBy>>, bodyValue(dueAt))
       IN  /\ server' = r.store
           /\ cache' = IF r.kind = "ok" THEN replaceCached(cache, id, r.item) ELSE cache
           /\ ApiStep("assignFeedback", id, <<assignedTo, assignedBy, dueAt>>, r.kind)
           /\ UNCHANGED token

apiAddInternalNote(feedbackId, note, author) ==
  IF token = null
  THEN /\ ApiStep("addInternalNote", feedbackId, note, "Error: log in")
       /\ UNCHANGED <<token, server, cache>>
  ELSE LET r == ServerAddNote(server, token, feedbackId, note)
       IN  /\ server' = r.store
           /\ cache' = IF r.kind = "ok" THEN replaceCached(cache, feedbackId, r.item) ELSE cache
           /\ ApiStep("addInternalNote", feedbackId, note, r.kind)
           /\ UNCHANGED token

ApiDrafts == { d \in Drafts : d.type = "non_academic" }
Summaries == {undefined, "fixed"}
Assignees == StaffDirectory \cup {"nobody"}
\* what a caller passes as assignedBy: a display name, or a user id
AssignerNames == {"Ada", "manager_2"}
DueDates == {undefined, "2026-01-01T00:00:00.000Z"}
ApiCallIds == 0..Len(server)

NextApi ==
  \/ \E principal \in Principals : login(principal)
  \/ logout
  \/ \E reachable \in BOOLEAN : refreshFeedbacks(reachable)
  \/ \E feedback \in ApiDrafts : apiSubmitFeedback(feedback)
  \/ \E id \in ApiCallIds, status \in FeedbackStatus, summary \in Summaries :
       apiUpdateFeedbackStatus(id, status, summary)
  \/ \E id \in ApiCallIds, assignedTo \in Assignees, assignedBy \in AssignerNames,
        dueAt \in DueDates : assignFeedback(id, assignedTo, assignedBy, dueAt)
  \/ \E id \in ApiCallIds, note \in NoteTexts, author \in Authors :
       apiAddInternalNote(id, note, author)

SpecApi == InitApi /\ [][NextApi]_vars


(***************************************************************************)
(* Notifications.  The service keeps one row per notification, written by  *)
(* its dispatcher through a delivery queue (its code is not part of the    *)
(* sources: the definitions Server... below follow the specification);     *)
(* NotificationProvider (src/src/contexts/NotificationContext.tsx) holds   *)
(* the list shown to the user of this browser.                             *)
(***************************************************************************)
NotifUsers == {"staff_1", "manager_1"}

\* ids: those the service hands out, and `local-${Date.now()}`
\* a feedback_id that may be absent (null, undefined) is a sequence of at most
\* one id
NoFeedback == <<>>
ServerNotifId(k) == <<"srv", k>>
LocalNotifId(at) == <<"local", at>>

\* the dispatcher turns a committed event into a queued row; commit is the
\* position of the event among all events committed so far
ServerNotify(store, pending, user_id, feedback_id, title) ==
  Append(pending,
         [ id |-> ServerNotifId(Len(store) + Len(pending) + 1),
           commit |-> Len(store) + Len(pending) + 1,
           user_id |-> user_id, feedback_id |-> feedback_id,
           title |-> title, type |-> "info", read |-> FALSE ])

\* GET /notifications: the rows of the caller, in the order they were written
ServerListNotifications(store, user_id) ==
  SelectSeq(store, LAMBDA row : row.user_id = user_id)

\* PATCH /notifications/{id}/read
ServerMarkRead(store, user_id, id) ==
  IF \E k \in 1..Len(store) : store[k].id = id /\ store[k].user_id = user_id
  THEN [ kind |-> "ok",
         store |-> [k \in 1..Len(store) |->
                      IF store[k].id = id THEN [store[k] EXCEPT !.read = TRUE]
                      ELSE store[k]] ]
  ELSE [ kind |-> "NotFoundError", store |-> store ]

\* PATCH /notifications/read-all
ServerMarkAllRead(store, user_id) ==
  [k \in 1..Len(store) |->
     IF store[k].user_id = user_id THEN [store[k] EXCEPT !.read = TRUE]
     ELSE store[k]]

\* rows delivered before the browser session starts
SeedNotifications ==
  << [ id |-> ServerNotifId(1), commit |-> 1, user_id |-> "staff_1", feedback_id |-> <<1>>,
       title |-> "New feedback assigned", type |-> "info", read |-> FALSE ],
     [ id |-> ServerNotifId(2), commit |-> 2, user_id |-> "manager_1", feedback_id |-> <<1>>,
       title |-> "High priority feedback", type |-> "warning", read |-> FALSE ],
     [ id |-> ServerNotifId(3), commit |-> 3, user_id |-> "staff_1", feedback_id |-> <<1>>,
       title |-> "Internal note added", type |-> "info", read |-> FALSE ] >>

mapNotification(item) ==
  [ id |-> item.id, title |-> item.title, type |-> item.type, read |-> item.read,
    feedbackId |-> IF item.feedback_id = NoFeedback THEN NoFeedback ELSE item.feedback_id ]

\* const unreadCount = notifications.filter((n) => !n.read).length
unreadCountOf_total(list) == Len(list)

unreadCountOf(list) == Len(SelectSeq(list, LAMBDA n : ~n.read))

\* setNotifications, and the render that follows it
setNotifications(list) ==
  /\ notifications' = list
  /\ unreadCount' = unreadCountOf(list)

NotifStep(op, id, arg, result) ==
  /\ steps < MaxNotifSteps
  /\ steps' = steps + 1
  /\ lastCall' = [op |-> op, id |-> id, arg |-> arg, result |-> result]
  /\ UNCHANGED <<feedbacks, cls, batchVars, sweepVars, viewVars>>

InitNotif ==
  /\ feedbacks = mockFeedbacks
  /\ now = FirstInstant
  /\ lastCall = NoCall
  /\ steps = 0
  /\ cls = NotClassified
  /\ token = null
  /\ server = SeedPending
  /\ cache = <<>>
  /\ BatchIdle /\ SweepIdle /\ ViewIdle
  /\ notifications = <<>> /\ unreadCount = 0
  /\ notifStore = SeedNotifications
  /\ notifQueue = <<>>

\* AuthProvider hands the provider a token, or takes it away
notifLogin(principal) ==
  /\ token = null
  /\ token' = principal
  /\ NotifStep("login", UnknownId, principal, "ok")
  /\ UNCHANGED <<now, server, cache, notifVars>>

notifLogout ==
  /\ token # null
  /\ token' = null
  /\ NotifStep("logout", UnknownId, undefined, "ok")
  /\ UNCHANGED <<now, server, cache, notifVars>>

refreshNotifications_unreadOnly(reachable) ==
  /\ IF token # null /\ reachable
     THEN LET rows == SelectSeq(ServerListNotifications(notifStore, token),
                                LAMBDA row : ~row.read)
          IN setNotifications([k \in 1..Len(rows) |-> mapNotification(rows[k])])
     ELSE setNotifications(<<>>)
  /\ NotifStep("refreshNotifications", UnknownId, undefined, "ok")
  /\ UNCHANGED <<now, apiVars, notifStore, notifQueue>>

\* the request goes through, or fails on the way
refreshNotifications(reachable) ==
  /\ IF token = null
     THEN setNotifications(<<>>)
     ELSE IF reachable
     THEN LET rows == ServerListNotifications(notifStore, token)
          IN setNotifications([k \in 1..Len(rows) |-> mapNotification(rows[k])])
     ELSE setNotifications(<<>>)
  /\ NotifStep("refreshNotifications", UnknownId, undefined, "ok")
  /\ UNCHANGED <<now, apiVars, notifStore, notifQueue>>

\* the entry addNotification puts first in the list
optimistic(notification) ==
  [ id |-> LocalNotifId(now), title |-> notification.title, type |-> notification.type,
    read |-> FALSE, feedbackId |-> notification.feedbackId ]

\* elapsed: the milliseconds gone by since the last reading of Date.now()
addNotification(notification, elapsed) ==
  /\ setNotifications(<<optimistic(notification)>> \o notifications)
  /\ now' = now + elapsed
  /\ NotifStep("addNotification", UnknownId, notification, "ok")
  /\ UNCHANGED <<apiVars, notifStore, notifQueue>>

\* prev.map((n) => (n.id === id ? { ...n, read: true } : n))
readOne_through(prev, id) ==
  [k \in 1..Len(prev) |->
     IF \E j \in k..Len(prev) : prev[j].id = id
     THEN [prev[k] EXCEPT !.read = TRUE] ELSE prev[k]]

readOne(prev, id) ==
  [k \in 1..Len(prev) |->
     IF prev[k].id = id THEN [prev[k] EXCEPT !.read = TRUE] ELSE prev[k]]

markAsRead(id) ==
  IF token = null
  THEN /\ NotifStep("markAsRead", UnknownId, id, "ok")
       /\ UNCHANGED <<now, apiVars, notifVars>>
  ELSE LET r == ServerMarkRead(notifStore, token, id)
       IN IF r.kind # "ok"
          THEN /\ NotifStep("markAsRead", UnknownId, id, r.kind)
               /\ UNCHANGED <<now, apiVars, notifVars>>
          ELSE /\ notifStore' = r.store
               /\ setNotifications(readOne(notifications, id))
               /\ NotifStep("markAsRead", UnknownId, id, "ok")
               /\ UNCHANGED <<now, apiVars, notifQueue>>

\* prev.map((n) => ({ ...n, read: true }))
readAll_toggle(prev) == [k \in 1..Len(prev) |-> [prev[k] EXCEPT !.read = ~@]]

readAll(prev) == [k \in 1..Len(prev) |-> [prev[k] EXCEPT !.read = TRUE]]

markAllAsRead ==
  IF token = null
  THEN /\ NotifStep("markAllAsRead", UnknownId, undefined, "ok")
       /\ UNCHANGED <<now, apiVars, notifVars>>
  ELSE /\ notifStore' = ServerMarkAllRead(notifStore, token)
       /\ setNotifications(readAll(notifications))
       /\ NotifStep("markAllAsRead", UnknownId, undefined, "ok")
       /\ UNCHANGED <<now, apiVars, notifQueue>>

clearNotifications ==
  /\ setNotifications(<<>>)
  /\ NotifStep("clearNotifications", UnknownId, undefined, "ok")
  /\ UNCHANGED <<now, apiVars, notifStore, notifQueue>>

\* the service commits an event on a record and queues its notification
dispatch(user_id, feedback_id, title) ==
  /\ notifQueue' = ServerNotify(notifStore, notifQueue, user_id, feedback_id, title)
  /\ NotifStep("dispatch", UnknownId, user_id, "queued")
  /\ UNCHANGED <<now, apiVars, notifications, unreadCount, notifStore>>

\* the delivery worker writes the oldest queued row
deliver ==
  /\ notifQueue # <<>>
  /\ notifStore' = Append(notifStore, Head(notifQueue))
  /\ notifQueue' = Tail(notifQueue)
  /\ NotifStep("deliver", UnknownId, Head(notifQueue).user_id, "ok")
  /\ UNCHANGED <<now, apiVars, notifications, unreadCount>>


\* AssignmentModal.handleAssign of the variant that notifies from the browser:
\* the three provider calls are not awaited, so their requests reach the
\* service in the order they were sent and a rejection reaches nobody; the
\* notification is added whatever they answer.  Of the service's own
\* notifications only the assignee's (specification 4.3) is modelled.
handleAssign(id, selectedStaff, elapsed) ==
  LET staffName == selectedStaff
      r1 == ServerAssign(server, token, id, selectedStaff,
                         <<"Assigned by", token>>, null)
      r2 == ServerUpdateStatus(r1.store, token, id, "assigned", null)
      r3 == ServerAddNote(r2.store, token, id, <<"Assigned to", staffName>>)
      c1 == IF r1.kind = "ok" THEN replaceCached(cache, id, r1.item) ELSE cache
      c2 == IF r2.kind = "ok" THEN replaceCached(c1, id, r2.item) ELSE c1
      c3 == IF r3.kind = "ok" THEN replaceCached(c2, id, r3.item) ELSE c2
  IN /\ IF token = null
        THEN UNCHANGED <<server, cache, notifQueue>>
        ELSE /\ server' = r3.store
             /\ cache' = c3
             /\ notifQueue' =
                  IF r1.kind = "ok"
                  THEN ServerNotify(notifStore, notifQueue, selectedStaff, <<id>>,
                                    "New feedback assigned")
                  ELSE notifQueue
     /\ setNotifications(
          <<optimistic([title |-> "New Feedback Assigned", type |-> "info",
                        feedbackId |-> <<id>>])>> \o notifications)
     /\ now' = now + elapsed
     /\ NotifStep("handleAssign", id, selectedStaff,
                  IF token = null THEN "Error: log in" ELSE r1.kind)
     /\ UNCHANGED <<token, notifStore>>

NotifCallIds ==
  { notifications[k].id : k \in 1..Len(notifications) }
    \cup { notifStore[k].id : k \in 1..Len(notifStore) }

Elapsed == {0, 1}

NextNotif ==
  \/ \E principal \in NotifUsers : notifLogin(principal)
  \/ notifLogout
  \/ \E reachable \in BOOLEAN : refreshNotifications(reachable)
  \/ \E elapsed \in Elapsed :
       addNotification([title |-> "New Feedback Assigned", type |-> "info",
                        feedbackId |-> <<1>>], elapsed)
  \/ \E id \in NotifCallIds : markAsRead(id)
  \/ markAllAsRead
  \/ clearNotifications
  \/ \E id \in 1..Len(server), selectedStaff \in StaffDirectory, elapsed \in Elapsed :
       handleAssign(id, selectedStaff, elapsed)
  \/ \E user_id \in NotifUsers : dispatch(user_id, <<1>>, "Status updated")
  \/ deliver

SpecNotif == InitNotif /\ [][NextNotif]_vars


(***************************************************************************)
(* The overdue sweep.  App (src/src/App.tsx) posts /feedback/overdue/check *)
(* when a user of a staff role is logged in, and again every minute, from  *)
(* every browser; the sweep itself is the service's (not part of the       *)
(* sources), modelled from the specification: it visits the records one by *)
(* one and decides on each in one transaction.                             *)
(***************************************************************************)
overdueCheckRoles ==
  { "department_head", "student_affairs", "head_student_affairs", "ict_admin",
    "course_coordinator", "dean", "facilities_management" }

\* the browsers with a logged-in user
SweepSessions ==
  { [user |-> "head_1", role |-> "department_head"],
    [user |-> "dean_1", role |-> "dean"],
    [user |-> "student_1", role |-> "student"] }

SweepUsers == { s.user : s \in SweepSessions }

\* no due date
NoDue == 0

\* a record is overdue: assigned, not terminal, past its due date
IsOverdue(item, at) ==
  /\ item.status \notin {"resolved", "rejected"}
  /\ item.assigned
  /\ item.dueAt # NoDue
  /\ at > item.dueAt

\* the sweep raises an escalation for an overdue record unless one was
\* raised for this assignment already
ShouldEscalate_unmarked(item, at) == IsOverdue(item, at)

ShouldEscalate(item, at) ==
  IsOverdue(item, at) /\ item.escalatedEpoch # item.epoch

\* epoch counts the assignments of the record: each one starts a new overdue
\* state
SweepSeed ==
  << [ status |-> "assigned", assigned |-> TRUE, dueAt |-> FirstInstant - 1,
       epoch |-> 1, escalatedEpoch |-> 0 ],
     [ status |-> "pending", assigned |-> FALSE, dueAt |-> NoDue,
       epoch |-> 0, escalatedEpoch |-> 0 ] >>

InitSweep ==
  /\ feedbacks = mockFeedbacks
  /\ now = FirstInstant
  /\ lastCall = NoCall
  /\ steps = 0
  /\ cls = NotClassified
  /\ token = null /\ server = <<>> /\ cache = <<>>
  /\ BatchIdle /\ NotifIdle /\ ViewIdle
  /\ sweep = [ items |-> SweepSeed, raised |-> <<>>,
               cursor |-> [u \in SweepUsers |-> 0] ]

SweepStep(op, id, arg, result) ==
  /\ steps < MaxSweepSteps
  /\ steps' = steps + 1
  /\ lastCall' = [op |-> op, id |-> id, arg |-> arg, result |-> result]
  /\ UNCHANGED <<feedbacks, cls, apiVars, batchVars, notifVars, viewVars>>

\* run(): the effect, or its interval, posts the check; the service starts a
\* sweep for the request
overdueCheck(session) ==
  /\ session.role \in overdueCheckRoles
  /\ sweep.cursor[session.user] = 0
  /\ sweep' = [sweep EXCEPT !.cursor[session.user] = 1]
  /\ SweepStep("overdueCheck", UnknownId, session.user, "ok")
  /\ UNCHANGED now

\* the sweep of one request decides on its next record
sweepRecord(user) ==
  LET k == sweep.cursor[user]
      next == IF k = Len(sweep.items) THEN 0 ELSE k + 1
  IN /\ k # 0
     /\ IF ShouldEscalate(sweep.items[k], now)
        THEN /\ sweep' = [sweep EXCEPT
                            !.items[k].escalatedEpoch = sweep.items[k].epoch,
                            !.raised = Append(@, [id |-> k, epoch |-> sweep.items[k].epoch]),
                            !.cursor[user] = next]
             /\ SweepStep("sweepRecord", k, user, "escalated")
        ELSE /\ sweep' = [sweep EXCEPT !.cursor[user] = next]
             /\ SweepStep("sweepRecord", k, user,
                          IF IsOverdue(sweep.items[k], now) THEN "already escalated"
                          ELSE "not overdue")
     /\ UNCHANGED now

\* the clock moves on
sweepTick ==
  /\ now' = now + 1
  /\ SweepStep("tick", UnknownId, undefined, "ok")
  /\ UNCHANGED sweep

\* a record is assigned (again), due one instant from now
sweepAssign(id) ==
  /\ sweep.items[id].status \notin {"resolved", "rejected"}
  /\ sweep' = [sweep EXCEPT !.items[id] =
                 [@ EXCEPT !.status = "assigned", !.assigned = TRUE,
                           !.dueAt = now + 1, !.epoch = @ + 1]]
  /\ SweepStep("assign", id, undefined, "ok")
  /\ UNCHANGED now

\* a record is resolved
sweepResolve(id) ==
  /\ sweep.items[id].status \notin {"resolved", "rejected"}
  /\ sweep' = [sweep EXCEPT !.items[id].status = "resolved"]
  /\ SweepStep("resolve", id, undefined, "ok")
  /\ UNCHANGED now

NextSweep ==
  \/ \E session \in SweepSessions : overdueCheck(session)
  \/ \E user \in SweepUsers : sweepRecord(user)
  \/ sweepTick
  \/ \E id \in 1..Len(SweepSeed) : sweepAssign(id)
  \/ \E id \in 1..Len(SweepSeed) : sweepResolve(id)

SpecSweep == InitSweep /\ [][NextSweep]_vars


(***************************************************************************)
(* Analytics.  AnalyticsPage (src/src/components/dashboards/              *)
(* AnalyticsPage.tsx) asks the service for the aggregates and shows what   *)
(* it gets; the aggregation is the service's (not part of the sources) and *)
(* is modelled from the specification.  Instants are whole hours.          *)
(***************************************************************************)
RECURSIVE SumOver(_, _)
SumOver(f, S) ==
  IF S = {} THEN 0
  ELSE LET x == CHOOSE y \in S : TRUE IN f[x] + SumOver(f, S \ {x})

RECURSIVE Gcd(_, _)
Gcd(a, b) == IF b = 0 THEN a ELSE Gcd(b, a % b)

\* a mean as a fraction in lowest terms; the mean of nothing is 0
Mean(sum, count) ==
  IF count = 0 \/ sum = 0 THEN [num |-> 0, den |-> 1]
  ELSE [num |-> sum \div Gcd(sum, count), den |-> count \div Gcd(sum, count)]

\* the records the resolution figures are taken over
CountsAsResolved_closed(r) == r.status \in {"resolved", "rejected"}

CountsAsResolved(r) == r.status = "resolved"

computeAnalytics(rows) ==
  LET resolved == { i \in 1..Len(rows) : CountsAsResolved(rows[i]) }
      hours == [i \in 1..Len(rows) |-> rows[i].resolvedAt - rows[i].createdAt]
  IN [ total_feedback |-> Len(rows),
       by_status |-> [s \in FeedbackStatus |->
                        Cardinality({ i \in 1..Len(rows) : rows[i].status = s })],
       resolution |-> [ resolved_count |-> Cardinality(resolved),
                        average_resolution_hours |->
                          Mean(SumOver(hours, resolved), Cardinality(resolved)) ] ]

\* no department given in the query
NoDepartment == "none"

\* GET /analytics?department=...: the records of the department asked for,
\* or all records when the query names none
ServerAnalytics(rows, department) ==
  computeAnalytics(IF department = NoDepartment THEN rows
                   ELSE SelectSeq(rows, LAMBDA r : r.department = department))

\* records the service can hold: created and closed at whole hours
AnalyticsPool ==
  { [status |-> "resolved", department |-> "Mathematics", createdAt |-> 0, resolvedAt |-> 4],
    [status |-> "resolved", department |-> "Physics", createdAt |-> 1, resolvedAt |-> 3],
    [status |-> "pending", department |-> "Mathematics", createdAt |-> 2, resolvedAt |-> 2],
    [status |-> "rejected", department |-> "Physics", createdAt |-> 1, resolvedAt |-> 6] }

\* user.role, user.department of the logged-in user
AnalyticsUsers ==
  { [role |-> "university_management", department |-> undefined],
    [role |-> "department_head", department |-> "Mathematics"],
    [role |-> "department_head", department |-> undefined],
    [role |-> "course_coordinator", department |-> "Physics"] }

isDepartmentScoped(user) ==
  user.role = "department_head" \/ user.role = "course_coordinator"

\* isDepartmentScoped && user?.department ? `?department=...` : ''
deptQuery(user) ==
  IF isDepartmentScoped(user) /\ user.department # undefined
  THEN user.department ELSE NoDepartment

InitAnalytics ==
  /\ feedbacks = mockFeedbacks
  /\ now = FirstInstant
  /\ lastCall = NoCall
  /\ steps = 0
  /\ cls = NotClassified
  /\ token = null /\ server = <<>> /\ cache = <<>>
  /\ BatchIdle /\ NotifIdle /\ SweepIdle
  /\ similar = <<>> /\ page = <<>> /\ inflight = <<>>
  /\ \E user \in AnalyticsUsers :
       analytics = [ rows |-> <<>>, user |-> user,
                     shown |-> computeAnalytics(<<>>), exported |-> computeAnalytics(<<>>) ]

AnalyticsStep(op, arg, result) ==
  /\ steps < MaxAnalyticsSteps
  /\ steps' = steps + 1
  /\ lastCall' = [op |-> op, id |-> UnknownId, arg |-> arg, result |-> result]
  /\ UNCHANGED <<feedbacks, now, cls, apiVars, batchVars, notifVars, sweepVars,
                 similar, page, inflight>>

\* the load effect: the snapshot (and the trends, asked for the same scope)
load ==
  /\ analytics' = [analytics EXCEPT
                     !.shown = ServerAnalytics(analytics.rows, deptQuery(analytics.user))]
  /\ AnalyticsStep("load", deptQuery(analytics.user), "ok")

\* the export download: the rows of the report
handleExport(exportFormat) ==
  /\ analytics' = [analytics EXCEPT
                     !.exported = ServerAnalytics(analytics.rows, deptQuery(analytics.user))]
  /\ AnalyticsStep("handleExport", deptQuery(analytics.user), "ok")

\* the service gains a record
analyticsRecord(r) ==
  /\ Len(analytics.rows) < MaxRecords
  /\ analytics' = [analytics EXCEPT !.rows = Append(@, r)]
  /\ AnalyticsStep("record", r.status, "ok")

NextAnalytics ==
  \/ load
  \/ \E exportFormat \in {"csv", "pdf"} : handleExport(exportFormat)
  \/ \E r \in AnalyticsPool : analyticsRecord(r)

SpecAnalytics == InitAnalytics /\ [][NextAnalytics]_vars

(***************************************************************************)
(* SimilarityDetector: the advisory list shown beside the feedback form    *)
(***************************************************************************)
\* longest description, in words, typed into the form
MaxSimWords == 2

RECURSIVE split(_)
\* String.prototype.split(' ')
split(text) ==
  IF \E i \in 1..Len(text) : text[i] = " "
  THEN LET i == CHOOSE k \in 1..Len(text) :
                  text[k] = " " /\ \A j \in 1..(k - 1) : text[j] # " "
       IN <<SubSeq(text, 1, i - 1)>> \o split(SubSeq(text, i + 1, Len(text)))
  ELSE <<text>>

\* Array.prototype.slice(begin, end)
slice(s, begin, end) ==
  SubSeq(s, begin + 1, IF end < Len(s) THEN end ELSE Len(s))

isKeyword(word) == Len(word) > 3

keywordsOf(description, subject) ==
  slice(SelectSeq(split(toLowerCase(description)) \o split(toLowerCase(subject)),
                  isKeyword), 0, 10)

feedbackTextOf(feedback) ==
  toLowerCase(feedback.subject \o <<" ">> \o feedback.description)

matchCount(keywords, feedbackText) ==
  Cardinality({ k \in 1..Len(keywords) : includes(feedbackText, keywords[k]) })

\* comparators of the sort: TRUE when a must come before b
ascendingScore(a, b) == a.score < b.score

descendingScore(a, b) == a.score > b.score

RECURSIVE insertByScore(_, _)
\* the item goes behind every item it must not precede (the sort is stable)
insertByScore(item, sorted) ==
  IF sorted = <<>> THEN <<item>>
  ELSE IF descendingScore(item, sorted[1]) THEN <<item>> \o sorted
  ELSE <<sorted[1]>> \o insertByScore(item, Tail(sorted))

RECURSIVE sortByScore(_)
\* Array.prototype.sort((a, b) => b.score - a.score)
sortByScore(items) ==
  IF items = <<>> THEN <<>>
  ELSE insertByScore(items[Len(items)], sortByScore(SubSeq(items, 1, Len(items) - 1)))

scored(keywords, allFeedbacks, category, type) ==
  LET sameKind(f) == f.type = type /\ f.category = category
      candidates == SelectSeq(allFeedbacks, sameKind)
  IN [i \in 1..Len(candidates) |->
        [feedback |-> candidates[i],
         score |-> matchCount(keywords, feedbackTextOf(candidates[i]))]]

\* the effect of SimilarityDetector
similarIssuesOf(description, subject, category, type, allFeedbacks) ==
  IF Len(description) < 20 /\ Len(subject) < 10 THEN <<>>
  ELSE LET isSimilar(item) == item.score >= 2
           top == slice(sortByScore(SelectSeq(
                    scored(keywordsOf(description, subject), allFeedbacks,
                           category, type), isSimilar)), 0, 3)
       IN [i \in 1..Len(top) |-> top[i].feedback]

SimVocabulary ==
  { <<"B","r","o","k","e","n">>, <<"p","r","o","j","e","c","t","o","r">>,
    <<"h","a","l","l">> }

LectureHall == <<"L","e","c","t","u","r","e"," ","h","a","l","l">>

\* ten long words and then two more
LongDescription ==
  JoinWords([i \in 1..12 |-> IF i <= 10 THEN <<"p","r","o","j","e","c","t">>
                             ELSE <<"h","a","l","l">>])

SimDescriptions ==
  { JoinWords(ws) : ws \in UNION { [1..n -> SimVocabulary] : n \in 0..MaxSimWords } }
    \cup {LongDescription}

SimSubjects == { <<"A","C">>, LectureHall }

SimKinds ==
  { [type |-> "non_academic", category |-> "Facilities"],
    [type |-> "non_academic", category |-> "Hostel"],
    [type |-> "academic", category |-> "Facilities"] }

SimRecord(id, kind, subject, description) ==
  [id |-> id, type |-> kind.type, category |-> kind.category,
   subject |-> subject, description |-> description]

Facilities == [type |-> "non_academic", category |-> "Facilities"]

\* what getAllFeedbacks returns when the form opens
SimSeed ==
  << SimRecord(1, Facilities, LectureHall,
               <<"B","r","o","k","e","n"," ","p","r","o","j","e","c","t","o","r">>),
     SimRecord(2, Facilities, LectureHall, <<"t","h","e"," ","h","a","l","l">>),
     SimRecord(3, Facilities, LectureHall \o <<" ","p","r","o","j","e","c","t","o","r">>,
               <<"B","r","o","k","e","n">>),
     SimRecord(4, Facilities, <<"h","a","l","l">>, LectureHall),
     SimRecord(5, [type |-> "academic", category |-> "Facilities"], LectureHall,
               <<"B","r","o","k","e","n"," ","p","r","o","j","e","c","t","o","r">>) >>

\* records other users submit while the form is open, in order of arrival
SimIncoming ==
  << [kind |-> Facilities, subject |-> <<"A","C">>,
      description |-> <<"B","r","o","k","e","n"," ","B","r","o","k","e","n">>],
     [kind |-> [type |-> "non_academic", category |-> "Hostel"],
      subject |-> LectureHall, description |-> <<"t","h","e"," ","h","a","l","l">>] >>

InitSimilar ==
  /\ feedbacks = mockFeedbacks
  /\ now = FirstInstant
  /\ lastCall = NoCall
  /\ steps = 0
  /\ cls = NotClassified
  /\ token = null /\ server = <<>> /\ cache = <<>>
  /\ BatchIdle /\ NotifIdle /\ SweepIdle
  /\ analytics = <<>> /\ page = <<>> /\ inflight = <<>>
  /\ similar = [allFeedbacks |-> SimSeed,
                description |-> <<>>, subject |-> <<>>,
                category |-> "Facilities", type |-> "non_academic",
                similarIssues |-> <<>>]

SimStep(op) ==
  /\ lastCall' = [op |-> op, id |-> UnknownId, arg |-> undefined, result |-> "ok"]
  /\ UNCHANGED <<feedbacks, now, steps, cls, apiVars, batchVars, notifVars,
                 sweepVars, analytics, page, inflight>>

\* the form passes new props and the effect runs on them
typeDraft(description, subject, kind) ==
  /\ similar' = [similar EXCEPT
                   !.description = description, !.subject = subject,
                   !.category = kind.category, !.type = kind.type,
                   !.similarIssues =
                     similarIssuesOf(description, subject, kind.category,
                                     kind.type, similar.allFeedbacks)]
  /\ SimStep("typeDraft")

\* the provider gains a record; the effect does not depend on the records
simSubmit ==
  /\ Len(similar.allFeedbacks) < Len(SimSeed) + Len(SimIncoming)
  /\ LET s == SimIncoming[Len(similar.allFeedbacks) - Len(SimSeed) + 1]
     IN similar' = [similar EXCEPT
                      !.allFeedbacks =
                        Append(@, SimRecord(Len(@) + 1, s.kind, s.subject, s.description))]
  /\ SimStep("simSubmit")

draftKind == [type |-> similar.type, category |-> similar.category]

\* the form changes one field at a time
NextSimilar ==
  \/ \E d \in SimDescriptions : typeDraft(d, similar.subject, draftKind)
  \/ \E s \in SimSubjects : typeDraft(similar.description, s, draftKind)
  \/ \E k \in SimKinds : typeDraft(similar.description, similar.subject, k)
  \/ simSubmit

SpecSimilar == InitSimilar /\ [][NextSimilar]_vars

(***************************************************************************)
(* AppContent: the page state machine                                      *)
(***************************************************************************)
Pages ==
  { "home", "login", "signup", "verify-email", "feedback", "dashboard",
    "my-feedback", "staff-inbox", "analytics", "about", "settings", "profile",
    "help", "notifications", "surveys", "hostel-ratings", "admin-users" }

UserRoles ==
  { "student", "academic_staff", "student_affairs", "facilities_management",
    "department_head", "course_coordinator", "dean", "university_management",
    "ict_admin", "head_student_affairs", "facilities_account" }

\* useAuth().user: null, or a user of a role who has or has not verified
NoUser == [role |-> "none", verified |-> FALSE]

AppUsers == [role : UserRoles, verified : BOOLEAN]

\* a bug canViewAnalytics could have: every logged-in user may view
canViewAnalytics_anyone(user) == user # NoUser

canViewAnalytics(user) ==
  user # NoUser /\ user.role \in { "university_management", "department_head",
                                  "course_coordinator", "dean" }

canUseStaffInbox(user) ==
  user # NoUser /\ user.role \in { "academic_staff", "course_coordinator",
                                  "department_head", "dean", "student_affairs",
                                  "head_student_affairs", "facilities_management",
                                  "facilities_account" }

renderDashboard(user) ==
  IF user = NoUser THEN "null"
  ELSE CASE user.role \in {"academic_staff", "department_head",
                           "course_coordinator", "dean"} -> "AcademicStaffDashboard"
         [] user.role \in {"student_affairs", "head_student_affairs"} ->
              "StudentAffairsDashboard"
         [] user.role \in {"facilities_management", "facilities_account"} ->
              "FacilitiesManagementDashboard"
         [] user.role = "university_management" -> "AnalyticsPage"
         [] user.role = "ict_admin" -> "UniversityManagementDashboard"
         [] OTHER -> "StudentDashboard"

\* pageContent of renderPage
renderPage(currentPage, user) ==
  CASE currentPage \in {"dashboard", "my-feedback"} -> renderDashboard(user)
    [] currentPage = "staff-inbox" ->
         IF ~canUseStaffInbox(user) THEN renderDashboard(user) ELSE "StaffInbox"
    [] currentPage = "analytics" ->
         IF user = NoUser \/ ~canViewAnalytics(user) THEN renderDashboard(user)
         ELSE "AnalyticsPage"
    [] currentPage = "admin-users" ->
         IF user = NoUser \/ user.role # "ict_admin" THEN renderDashboard(user)
         ELSE "AdminUsersPage"
    [] OTHER -> currentPage

\* one pass of the effects after a commit: each reads the committed page and
\* user, and the last setCurrentPage of the pass is the one that stays
effects(currentPage, user) ==
  LET isAuthenticated == user # NoUser
      e1 == IF isAuthenticated /\ user.verified /\ currentPage = "home"
            THEN "dashboard" ELSE currentPage
      e2 == IF isAuthenticated /\ ~user.verified /\ currentPage # "verify-email"
            THEN "verify-email" ELSE e1
  IN IF user = NoUser THEN e2
     ELSE IF \/ currentPage = "analytics" /\ ~canViewAnalytics(user)
             \/ currentPage = "staff-inbox" /\ ~canUseStaffInbox(user)
             \/ currentPage = "admin-users" /\ user.role # "ict_admin"
          THEN "dashboard" ELSE e2

RECURSIVE commits(_, _)
\* the pages committed one after another until the effects set nothing new
commits(currentPage, user) ==
  IF effects(currentPage, user) = currentPage THEN <<currentPage>>
  ELSE <<currentPage>> \o commits(effects(currentPage, user), user)

InitApp ==
  /\ feedbacks = mockFeedbacks
  /\ now = FirstInstant
  /\ lastCall = NoCall
  /\ steps = 0
  /\ cls = NotClassified
  /\ token = null /\ server = <<>> /\ cache = <<>>
  /\ BatchIdle /\ NotifIdle /\ SweepIdle
  /\ analytics = <<>> /\ similar = <<>> /\ inflight = <<>>
  /\ page = [currentPage |-> "home", user |-> NoUser,
             rendered |-> <<renderPage("home", NoUser)>>]

\* a state change, the renders it causes and the effects after each of them
AppStep(op, arg, currentPage, user) ==
  /\ page' = [currentPage |-> commits(currentPage, user)[Len(commits(currentPage, user))],
              user |-> user,
              rendered |-> [i \in 1..Len(commits(currentPage, user)) |->
                              renderPage(commits(currentPage, user)[i], user)]]
  /\ lastCall' = [op |-> op, id |-> UnknownId, arg |-> arg, result |-> "ok"]
  /\ UNCHANGED <<feedbacks, now, steps, cls, apiVars, batchVars, notifVars,
                 sweepVars, analytics, similar, inflight>>

handleNavigate(target) ==
  IF \/ target = "analytics" /\ page.user # NoUser /\ ~canViewAnalytics(page.user)
     \/ target = "staff-inbox" /\ page.user # NoUser /\ ~canUseStaffInbox(page.user)
     \/ target = "admin-users" /\ page.user # NoUser /\ page.user.role # "ict_admin"
  THEN AppStep("handleNavigate", target, "dashboard", page.user)
  ELSE AppStep("handleNavigate", target, target, page.user)

\* login, signup, verifyEmail and logout of the AuthProvider
setUser(user) == AppStep("setUser", user.role, page.currentPage, user)

NextApp ==
  \/ \E target \in Pages : handleNavigate(target)
  \/ \E user \in AppUsers \cup {NoUser} : setUser(user)

SpecApp == InitApp /\ [][NextApp]_vars

(***************************************************************************)
(* API-backed FeedbackProvider: requests in flight, and the awaited        *)
(* requests of AssignmentModal                                             *)
(***************************************************************************)
\* most requests waiting for their response at one time
MaxInflight == 2

\* most calls in one run
MaxAsyncSteps == 4

AsyncStatuses == {"in_review", "working"}

\* what the service does with one request of the provider
serve(store, principal, op, id, arg) ==
  CASE op = "updateFeedbackStatus" -> ServerUpdateStatus(store, principal, id, arg, null)
    [] op = "assignFeedback" ->
         ServerAssign(store, principal, id, arg, <<"Assigned by", "Ada">>, null)
    [] op = "addInternalNote" -> ServerAddNote(store, principal, id, arg)

\* the code after the await: setFeedbacks with the response, or the throw
afterAwait(prev, response) ==
  IF response.kind # "ok" THEN prev
  ELSE IF response.op = "refreshFeedbacks"
       THEN [k \in 1..Len(response.items) |-> mapFeedback(response.items[k])]
       ELSE replaceCached(prev, response.id, response.item)

InitAsync ==
  /\ feedbacks = mockFeedbacks
  /\ now = FirstInstant
  /\ lastCall = NoCall
  /\ steps = 0
  /\ cls = NotClassified
  /\ token = "manager_1"
  /\ server \in {SeedPending, SeedResolved}
  /\ cache = [k \in 1..Len(server) |-> mapFeedback(server[k])]
  /\ BatchIdle /\ NotifIdle /\ SweepIdle
  /\ analytics = <<>> /\ similar = <<>> /\ page = <<>>
  /\ inflight = <<>>

AsyncStep(op, id, arg, result) ==
  /\ steps < MaxAsyncSteps
  /\ steps' = steps + 1
  /\ lastCall' = [op |-> op, id |-> id, arg |-> arg, result |-> result]
  /\ UNCHANGED <<feedbacks, now, cls, token, batchVars, notifVars, sweepVars,
                 analytics, similar, page>>

\* a mutator is called: the request reaches the service, which commits it; the
\* caller waits for the response
send(op, id, arg) ==
  /\ Len(inflight) < MaxInflight
  /\ LET r == serve(server, token, op, id, arg)
     IN /\ server' = r.store
        /\ inflight' = Append(inflight, [op |-> op, id |-> id, kind |-> r.kind,
                                         item |-> r.item, items |-> <<>>])
  /\ UNCHANGED cache
  /\ AsyncStep(op, id, arg, "pending")

\* refreshFeedbacks is called: the service answers with the list as it is now
sendRefresh ==
  /\ Len(inflight) < MaxInflight
  /\ inflight' = Append(inflight, [op |-> "refreshFeedbacks", id |-> UnknownId,
                                   kind |-> "ok", item |-> [id |-> UnknownId],
                                   items |-> server])
  /\ UNCHANGED <<server, cache>>
  /\ AsyncStep("refreshFeedbacks", UnknownId, undefined, "pending")

\* a response arrives, whichever of those in flight it is
receive(k) ==
  /\ k \in 1..Len(inflight)
  /\ cache' = afterAwait(cache, inflight[k])
  /\ inflight' = [i \in 1..(Len(inflight) - 1) |->
                    IF i < k THEN inflight[i] ELSE inflight[i + 1]]
  /\ UNCHANGED server
  /\ AsyncStep("receive", inflight[k].id, inflight[k].op, inflight[k].kind)

\* the requests handleAssign awaits one after another, in its two variants
awaited(variant, selectedStaff) ==
  IF variant = "status"
  THEN << [op |-> "assignFeedback", arg |-> selectedStaff],
          [op |-> "updateFeedbackStatus", arg |-> "assigned"],
          [op |-> "addInternalNote", arg |-> "note"] >>
  ELSE << [op |-> "assignFeedback", arg |-> selectedStaff],
          [op |-> "addInternalNote", arg |-> "note"] >>

RECURSIVE runAwaited(_, _, _, _, _, _)
\* the try block from request i on; the request `lost` fails on the way
runAwaited(requests, i, id, lost, store, prev) ==
  IF i > Len(requests) THEN [store |-> store, cache |-> prev, error |-> "none"]
  ELSE IF i = lost THEN [store |-> store, cache |-> prev, error |-> "Failed to fetch"]
  ELSE LET r == serve(store, token, requests[i].op, id, requests[i].arg)
       IN IF r.kind # "ok" THEN [store |-> store, cache |-> prev, error |-> r.kind]
          ELSE runAwaited(requests, i + 1, id, lost, r.store,
                          replaceCached(prev, id, r.item))

\* what the catch block shows
toastOf(variant, error) ==
  IF error = "none" THEN "ok"
  ELSE IF variant = "status" THEN "Failed to assign feedback"
  ELSE error

\* AssignmentModal.handleAssign, used while no other request is in flight
modalHandleAssign(variant, id, selectedStaff, lost) ==
  /\ inflight = <<>>
  /\ LET done == runAwaited(awaited(variant, selectedStaff), 1, id, lost, server, cache)
     IN /\ server' = done.store
        /\ cache' = done.cache
        /\ AsyncStep("handleAssign", id, done.error, toastOf(variant, done.error))
  /\ UNCHANGED inflight

NextAsync ==
  \/ \E id \in ApiCallIds, status \in AsyncStatuses :
       send("updateFeedbackStatus", id, status)
  \/ \E id \in ApiCallIds : send("assignFeedback", id, "staff_1")
  \/ \E id \in ApiCallIds : send("addInternalNote", id, "note")
  \/ sendRefresh
  \/ \E k \in 1..MaxInflight : receive(k)
  \/ \E variant \in {"status", "dueAt"}, id \in ApiCallIds, lost \in 0..3 :
       modalHandleAssign(variant, id, "staff_1", lost)

SpecAsync == InitAsync /\ [][NextAsync]_vars

(***************************************************************************)
(* What the claims speak of                                                *)
(***************************************************************************)
Terminal == {"resolved", "rejected"}

LegalTransitions ==
  { <<"pending", "in_review">>, <<"pending", "assigned">>, <<"in_review", "assigned">>,
    <<"assigned", "working">>, <<"working", "resolved">> }
  \cup ({"pending", "in_review", "assigned", "working"} \X {"rejected"})

\* word occurs in text as a substring, letters compared without regard to case
OccursIn(word, text) ==
  \E k \in 1..(Len(text) - Len(word) + 1) :
    \A j \in 1..Len(word) : charToLowerCase(text[k + j - 1]) = word[j]

AnyOccursIn(words, text) == \E i \in 1..Len(words) : OccursIn(words[i], text)

\* a step of the browser-only provider that is the call `op`
LocalCall(op) == steps' # steps /\ lastCall'.op = op

\* positions of the records a call on `id` is about
Targets(id) == { i \in 1..Len(feedbacks) : feedbacks[i].id = id }

(***************************************************************************)
(* C1: whenever a step changes a record's status, the (old, new) pair is   *)
(* one of the legal transitions; in particular the status of a resolved or *)
(* rejected record never changes.                                          *)
(***************************************************************************)
C1_OnlyLegalTransitions ==
  [][ \A i \in 1..Len(feedbacks) :
        feedbacks'[i].status # feedbacks[i].status
          => <<feedbacks[i].status, feedbacks'[i].status>> \in LegalTransitions ]_vars

(***************************************************************************)
(* C2: an updateStatus call on a resolved or rejected record fails with    *)
(* InvalidStateError and leaves status, resolutionSummary and history as   *)
(* they were.                                                              *)
(***************************************************************************)
C2_TerminalUpdateFails ==
  [][ \A i \in Targets(lastCall'.id) :
        LocalCall("updateFeedbackStatus") /\ feedbacks[i].status \in Terminal
          => /\ lastCall'.result = "InvalidStateError"
             /\ feedbacks'[i].status = feedbacks[i].status
             /\ feedbacks'[i].resolutionSummary = feedbacks[i].resolutionSummary
             /\ feedbacks'[i].statusHistory = feedbacks[i].statusHistory ]_vars

(***************************************************************************)
(* C3: updateStatus(id, resolved) without a resolutionSummary fails with   *)
(* ValidationError and leaves the record unchanged, so that every record   *)
(* in status resolved has a resolutionSummary.  (The browser-only          *)
(* updateFeedbackStatus takes no summary: each of its calls is one without *)
(* a summary.)                                                             *)
(***************************************************************************)
C3_ResolveNeedsSummary ==
  [][ /\ \A i \in Targets(lastCall'.id) :
           LocalCall("updateFeedbackStatus") /\ lastCall'.arg = "resolved"
             => lastCall'.result = "ValidationError" /\ feedbacks'[i] = feedbacks[i]
      /\ \A i \in 1..Len(feedbacks') :
           feedbacks'[i].status = "resolved"
             => feedbacks'[i].resolutionSummary # undefined ]_vars

(***************************************************************************)
(* C6: a successful submit creates exactly one new record, with status     *)
(* pending, priority detectPriority(description) and a status history of   *)
(* exactly one entry.                                                      *)
(***************************************************************************)
C6_SubmitCreatesOne ==
  [][ (LocalCall("submitFeedback") /\ lastCall'.result = "ok")
        => /\ Len(feedbacks') = Len(feedbacks) + 1
           /\ SubSeq(feedbacks', 1, Len(feedbacks)) = feedbacks
           /\ LET created == feedbacks'[Len(feedbacks')]
              IN  /\ created.status = "pending"
                  /\ created.priority = detectPriority(lastCall'.arg.description)
                  /\ Len(created.statusHistory) = 1 ]_vars

(***************************************************************************)
(* C7: submit is rejected with a validation error whenever a blocklisted   *)
(* word occurs, in any letter case, in the subject or in the description;  *)
(* the rejected submit leaves the record list as it was.                   *)
(***************************************************************************)
C7_ProfanityRejected ==
  [][ ( /\ LocalCall("submitFeedback") \/ LocalCall("handleSubmit")
        /\ \/ AnyOccursIn(profanityList, lastCall'.arg.subject)
           \/ AnyOccursIn(profanityList, lastCall'.arg.description) )
        => /\ lastCall'.result = "Error: inappropriate language"
           /\ feedbacks' = feedbacks ]_vars

\* a submit of a draft whose description holds DAMN in capitals was rejected
C7_Witness ==
  /\ lastCall.op = "submitFeedback"
  /\ lastCall.result = "Error: inappropriate language"
  /\ includes(lastCall.arg.description, <<"D","A","M","N">>)
  /\ feedbacks = mockFeedbacks

(***************************************************************************)
(* C8: detectPriority returns urgent if an urgent-tier keyword occurs in   *)
(* the description (whatever high-tier keywords occur too), high if none   *)
(* of the urgent tier and one of the high tier occurs, medium otherwise;   *)
(* it never returns low.  Keywords are found in any letter case.           *)
(***************************************************************************)
C8_PriorityTiers ==
  cls.priority # "none" =>
    /\ AnyOccursIn(urgentKeywords, cls.text) => cls.priority = "urgent"
    /\ (~AnyOccursIn(urgentKeywords, cls.text) /\ AnyOccursIn(highKeywords, cls.text))
         => cls.priority = "high"
    /\ (~AnyOccursIn(urgentKeywords, cls.text) /\ ~AnyOccursIn(highKeywords, cls.text))
         => cls.priority = "medium"
    /\ cls.priority # "low"

\* a description with a high-tier word ahead of an urgent-tier word was rated
C8_Witness ==
  /\ cls.text = <<"B","r","o","k","e","n"," ","U","R","G","E","N","T">>
  /\ cls.priority = "urgent"

(***************************************************************************)
(* C10: each successful updateStatus or addNote call on a record appends   *)
(* exactly one StatusHistoryEntry to that record.                          *)
(***************************************************************************)
C10_OneEntryPerCall ==
  [][ \A i \in Targets(lastCall'.id) :
        ( /\ LocalCall("updateFeedbackStatus") \/ LocalCall("addInternalNote")
          /\ lastCall'.result = "ok" )
          => Len(feedbacks'[i].statusHistory) = Len(feedbacks[i].statusHistory) + 1 ]_vars

(***************************************************************************)
(* The API-backed provider                                                 *)
(***************************************************************************)
\* a step that is the call `op`, made by a logged-in caller
ApiCall(op) == steps' # steps /\ lastCall'.op = op /\ token # null

IsPrefix(s, t) == Len(s) <= Len(t) /\ SubSeq(t, 1, Len(s)) = s

(***************************************************************************)
(* C4: assign by a logged-in caller on a record whose status is resolved   *)
(* or rejected fails with InvalidStateError and leaves the record -        *)
(* assignedTo, assignedBy, dueAt, status, history - unchanged, at the      *)
(* service and in the provider's list, for every assignee and assigner.    *)
(***************************************************************************)
C4_AssignOnTerminalFails ==
  [][ ( /\ ApiCall("assignFeedback")
        /\ lastCall'.id \in 1..Len(server)
        /\ server[lastCall'.id].status \in Terminal )
        => /\ lastCall'.result = "InvalidStateError"
           /\ server' = server
           /\ cache' = cache ]_vars

\* an assign was refused on a resolved or rejected record the provider lists
C4_Witness ==
  /\ lastCall.op = "assignFeedback"
  /\ lastCall.result = "InvalidStateError"
  /\ \E k \in 1..Len(cache) :
       /\ cache[k].id = lastCall.id
       /\ cache[k].status \in Terminal
       /\ cache[k].assignedTo # lastCall.arg[1]

RECURSIVE StatusAfter(_, _)
StatusAfter(status, us) ==
  IF us = <<>> THEN status
  ELSE StatusAfter(IF Head(us).op = "updateFeedbackStatus" THEN Head(us).arg ELSE status,
                   Tail(us))

\* C11: two mutation requests issued concurrently against one feedback id
\* leave the record as some serial execution of the two does: the final
\* status is the one written by the last committed request, the other
\* fields are those of the serial execution, and the history holds the
\* entries of both requests (two more than before) in commit order.
C11_ConcurrentSerializable ==
  [][ (LocalCall("render") /\ Len(queue) = 2 /\ queue[1].id = queue[2].id)
      => \A i \in Targets(queue[1].id) :
           /\ Len(feedbacks') = Len(feedbacks)
           /\ feedbacks'[i].status = StatusAfter(feedbacks[i].status, queue)
           /\ feedbacks'[i] = applyUpdater(applyUpdater(feedbacks, queue[1]), queue[2])[i]
           /\ Len(feedbacks'[i].statusHistory) = Len(feedbacks[i].statusHistory) + 2
           /\ \A k \in 1..2 :
                feedbacks'[i].statusHistory[Len(feedbacks[i].statusHistory) + k].status
                  = StatusAfter(feedbacks[i].status, SubSeq(queue, 1, k)) ]_vars

(***************************************************************************)
(* Notifications                                                           *)
(***************************************************************************)
NotifCall(op) == steps' # steps /\ lastCall'.op = op

\* the recipients of the notifications a step creates: the user_id of every
\* row the service queues, and the user of this browser for every entry the
\* provider adds to its own list
NewRecipients ==
  [k \in 1..(Len(notifQueue') - Len(notifQueue)) |-> notifQueue'[Len(notifQueue) + k].user_id]
    \o [k \in 1..(Len(notifications') - Len(notifications)) |-> token]

\* C12: a successful assign(id, staffA, managerA, dueAt) on a pending record
\* creates exactly one new Notification, and its recipient is the assignee
\* staffA, not the assigner.
C12_AssignNotifiesAssigneeOnce ==
  [][ ( /\ NotifCall("handleAssign")
        /\ lastCall'.result = "ok"
        /\ server[lastCall'.id].status = "pending" )
      => NewRecipients = <<lastCall'.arg>> ]_vars

Unread(list) == { k \in 1..Len(list) : ~list[k].read }
UnreadRowsOf(store, user_id) ==
  { k \in 1..Len(store) : store[k].user_id = user_id /\ ~store[k].read }

\* C13: after markAllAsRead completes for the logged-in user u, u has no
\* unread notification, in the provider's list and among the service's rows;
\* a markAllAsRead that directly follows one raises no error and leaves the
\* notification state exactly as it was.
C13_MarkAllAsReadIdempotent ==
  [][ (NotifCall("markAllAsRead") /\ token # null)
      => /\ lastCall'.result = "ok"
         /\ Unread(notifications') = {}
         /\ unreadCount' = 0
         /\ UnreadRowsOf(notifStore', token) = {}
         /\ lastCall.op = "markAllAsRead" => UNCHANGED notifVars ]_vars

C13_Witness ==
  /\ lastCall.op = "markAllAsRead" /\ token # null
  /\ Len(notifications) >= 2
  /\ Unread(notifications) = {}
  /\ \E k \in 1..Len(notifStore) : notifStore[k].user_id = token /\ notifStore[k].read
  /\ \E k \in 1..Len(notifStore) : notifStore[k].user_id # token /\ ~notifStore[k].read

\* C14: a markAsRead(id) the service accepts sets read = true on exactly the
\* one notification with that id (one row of the service, at most one entry
\* of the provider's list) and leaves every other notification, and every
\* other field of that one, unchanged.
C14_MarkAsReadExactlyOne ==
  [][ (NotifCall("markAsRead") /\ token # null /\ lastCall'.result = "ok")
      => /\ Cardinality({ k \in 1..Len(notifStore) : notifStore[k].id = lastCall'.arg }) = 1
         /\ Cardinality({ k \in 1..Len(notifications) :
                            notifications[k].id = lastCall'.arg }) <= 1
         /\ Len(notifStore') = Len(notifStore)
         /\ \A k \in 1..Len(notifStore) :
              notifStore'[k] = IF notifStore[k].id = lastCall'.arg
                               THEN [notifStore[k] EXCEPT !.read = TRUE]
                               ELSE notifStore[k]
         /\ Len(notifications') = Len(notifications)
         /\ \A k \in 1..Len(notifications) :
              notifications'[k] = IF notifications[k].id = lastCall'.arg
                                  THEN [notifications[k] EXCEPT !.read = TRUE]
                                  ELSE notifications[k] ]_vars

C14_Witness ==
  /\ lastCall.op = "markAsRead" /\ lastCall.result = "ok" /\ token # null
  /\ \E k \in 1..Len(notifications) :
       notifications[k].id = lastCall.arg /\ notifications[k].read
  /\ \E k \in 1..Len(notifications) :
       notifications[k].id # lastCall.arg /\ ~notifications[k].read

\* C15: whatever notifications were created, marked read, refreshed or
\* cleared, the unread count the provider reports equals the number of
\* notifications of its list whose read flag is false.
C15_UnreadCountIsLive ==
  unreadCount = Cardinality(Unread(notifications))

C15_Witness ==
  /\ unreadCount >= 1
  /\ \E k \in 1..Len(notifications) : notifications[k].read
  /\ \E k \in 1..Len(notifications) : notifications[k].id[1] = "local"

\* all rows the service has committed, delivered or still queued
Committed == notifStore \o notifQueue

\* C16: notifications of one feedback id are observable in the order their
\* events were committed: a row is delivered only after every row committed
\* before it for the same feedback id, and a reader's list that shows the
\* notification of an event shows those of all earlier events of that
\* feedback id for the same reader.
C16_ObservedInCommitOrder ==
  /\ \A i \in 1..Len(notifStore), j \in 1..Len(notifQueue) :
       notifStore[i].feedback_id = notifQueue[j].feedback_id
         => notifStore[i].commit < notifQueue[j].commit
  /\ \A k \in 1..Len(notifications), i, j \in 1..Len(Committed) :
       ( /\ notifications[k].id = Committed[j].id
         /\ Committed[i].user_id = Committed[j].user_id
         /\ Committed[i].feedback_id = Committed[j].feedback_id
         /\ Committed[i].commit < Committed[j].commit )
       => \E m \in 1..Len(notifications) : notifications[m].id = Committed[i].id

C16_Witness ==
  /\ Len(notifStore) > Len(SeedNotifications)
  /\ \E k \in 1..Len(notifications) :
       notifications[k].id = notifStore[Len(notifStore)].id
  /\ \E k \in 1..Len(notifications) : notifications[k].id = ServerNotifId(1)

(***************************************************************************)
(* The overdue sweep                                                       *)
(***************************************************************************)
\* C17: however many sweeps run, one after the other or interleaved from
\* several clients, at most one escalation is raised per record and overdue
\* state (assignment past its due date); an escalation is raised only for a
\* record that is overdue, and a sweep that meets an escalation already
\* raised adds nothing.
C17_SweepIdempotent ==
  /\ \A i, j \in 1..Len(sweep.raised) : sweep.raised[i] = sweep.raised[j] => i = j
  /\ \A i \in 1..Len(sweep.raised) :
       sweep.items[sweep.raised[i].id].epoch >= sweep.raised[i].epoch
  /\ lastCall.op = "sweepRecord" /\ lastCall.result = "already escalated"
       => \E i \in 1..Len(sweep.raised) :
            sweep.raised[i] = [id |-> lastCall.id, epoch |-> sweep.items[lastCall.id].epoch]

C17_Witness ==
  /\ lastCall.op = "sweepRecord" /\ lastCall.result = "already escalated"
  /\ Len(sweep.raised) = 1

(***************************************************************************)
(* Who sees what                                                           *)
(***************************************************************************)
\* the ids of the users who submit: user.id as FeedbackForm passes it
Submitters == { d.studentId : d \in Drafts }

\* the lists the staff dashboards read
StaffListings ==
  {getAllFeedbacks} \cup { getAssignedFeedbacks(a) : a \in {"facilities_management"} }

\* C18: a record submitted with the anonymous flag never reveals who
\* submitted it on a staff-facing read path: no entry of a staff listing
\* that is anonymous carries the id of a submitter, so that two anonymous
\* records differing only in the submitter read the same.
C18_AnonymousHidesSubmitter ==
  \A listing \in StaffListings : \A k \in 1..Len(listing) :
     listing[k].isAnonymous => listing[k].studentId \notin Submitters

\* C19: the internal notes of a feedback are in no projection delivered to
\* the student who submitted it: the entries of the student's own listing
\* carry no note, whatever notes the staff added.
C19_NotesHiddenFromSubmitter ==
  \A userId \in Submitters :
     \A k \in 1..Len(getUserFeedbacks(userId)) :
        getUserFeedbacks(userId)[k].internalNotes = <<>>

(***************************************************************************)
(* The assignee                                                            *)
(***************************************************************************)
\* this step is a successful assign of record id to the assignee given
AssignedBy(id) ==
  /\ ApiCall("assignFeedback")
  /\ lastCall'.id = id
  /\ lastCall'.result = "ok"

AnalyticsCall(op) == steps' # steps /\ lastCall'.op = op

ResolvedIn(rows) == { i \in 1..Len(rows) : rows[i].status = "resolved" }

Departments == { r.department : r \in AnalyticsPool }

\* C22: for every filtered record set the aggregates report resolved_count
\* as the number of records in status resolved and average_resolution_hours
\* as the mean of resolvedAt - createdAt over exactly those records (the
\* mean times the count is the sum of the hours); a pending or rejected
\* record added to the set changes neither figure.
C22_ResolutionOverResolvedOnly ==
  [][ /\ \A d \in Departments \cup {NoDepartment} :
           LET rows == IF d = NoDepartment THEN analytics.rows
                       ELSE SelectSeq(analytics.rows, LAMBDA r : r.department = d)
               res == ServerAnalytics(analytics.rows, d).resolution
           IN /\ res.resolved_count = Cardinality(ResolvedIn(rows))
              /\ res.average_resolution_hours.num * res.resolved_count
                   = res.average_resolution_hours.den
                       * SumOver([i \in 1..Len(rows) |-> rows[i].resolvedAt - rows[i].createdAt],
                                 ResolvedIn(rows))
      /\ (AnalyticsCall("record") /\ lastCall'.arg \in {"pending", "rejected"})
           => \A d \in Departments \cup {NoDepartment} :
                ServerAnalytics(analytics'.rows, d).resolution
                  = ServerAnalytics(analytics.rows, d).resolution
      /\ AnalyticsCall("load")
           => analytics'.shown = ServerAnalytics(analytics.rows, lastCall'.arg) ]_vars

\* the page shows the figures of a set with two resolved records, a pending
\* and a rejected one beside them
C22_Witness ==
  /\ lastCall.op = "load"
  /\ analytics.shown.resolution.resolved_count = 2
  /\ analytics.shown.total_feedback = 3
  /\ analytics.shown.resolution.average_resolution_hours = [num |-> 3, den |-> 1]

OwnDepartmentCount(user, rows) ==
  Cardinality({ i \in 1..Len(rows) : rows[i].department = user.department })

\* C23: a snapshot, trends or export request made for a department-scoped
\* user is restricted to that user's own department: the aggregates obtained
\* count the records of that department only, none when the user's
\* department is unset.
C23_DepartmentScopeEnforced ==
  [][ ((AnalyticsCall("load") \/ AnalyticsCall("handleExport"))
        /\ isDepartmentScoped(analytics.user))
      => /\ analytics'.shown.total_feedback
              <= OwnDepartmentCount(analytics.user, analytics.rows)
         /\ analytics'.exported.total_feedback
              <= OwnDepartmentCount(analytics.user, analytics.rows) ]_vars

\* the words of a text: its maximal runs of characters other than the space
WordStarts(text) ==
  { i \in 1..Len(text) : text[i] # " " /\ (i = 1 \/ text[i - 1] = " ") }

WordAt(text, i) ==
  SubSeq(text, i, CHOOSE e \in i..Len(text) :
                    /\ \A j \in i..e : text[j] # " "
                    /\ (e = Len(text) \/ text[e + 1] = " "))

\* the lowercase words of a text in the order they stand in
WordsOf(text) ==
  LET starts == WordStarts(text)
      nth(k) == CHOOSE i \in starts : Cardinality({ j \in starts : j < i }) = k - 1
  IN [k \in 1..Cardinality(starts) |-> toLowerCase(WordAt(text, nth(k)))]

\* the draft's keywords: its first 10 lowercase words longer than 3 characters
DraftKeywords(d) ==
  LET long(w) == Len(w) > 3
      all == SelectSeq(WordsOf(d.description) \o WordsOf(d.subject), long)
  IN SubSeq(all, 1, IF Len(all) > 10 THEN 10 ELSE Len(all))

KeywordTokens(d) == { DraftKeywords(d)[k] : k \in 1..Len(DraftKeywords(d)) }

\* how many of the draft's keywords occur in the record's subject+description
Score(d, r) ==
  LET keywords == DraftKeywords(d)
      text == r.subject \o <<" ">> \o r.description
  IN Cardinality({ k \in 1..Len(keywords) : OccursIn(keywords[k], text) })

SameKind(d, r) == d.type = r.type /\ d.category = r.category

\* b is in the advisory list computed for the draft a
ListedFor(a, b) ==
  similarIssuesOf(a.description, a.subject, a.category, a.type,
                  <<SimRecord(b.id, [type |-> b.type, category |-> b.category],
                              b.subject, b.description)>>) # <<>>

DraftTyped == [id |-> 0, type |-> similar.type, category |-> similar.category,
               subject |-> similar.subject, description |-> similar.description]

\* C24: the draft in the form and any record of the same type and category
\* that share at least 2 keyword tokens are listed for each other, and when
\* they share exactly 1 keyword token neither is listed for the other.
C24_SimilaritySymmetric ==
  lastCall.op = "typeDraft" =>
    \A i \in 1..Len(similar.allFeedbacks) :
      LET r == similar.allFeedbacks[i]
          shared == Cardinality(KeywordTokens(DraftTyped) \cap KeywordTokens(r))
      IN SameKind(DraftTyped, r) =>
           /\ shared >= 2 => ListedFor(DraftTyped, r) /\ ListedFor(r, DraftTyped)
           /\ shared = 1 => ~ListedFor(DraftTyped, r) /\ ~ListedFor(r, DraftTyped)

AdvisoryOk ==
  LET issues == similar.similarIssues
  IN /\ Len(issues) <= 3
     /\ \A i \in 1..Len(issues) :
          /\ \E j \in 1..Len(similar.allFeedbacks) : similar.allFeedbacks[j] = issues[i]
          /\ SameKind(DraftTyped, issues[i])
          /\ Score(DraftTyped, issues[i]) >= 2
     /\ \A i \in 1..(Len(issues) - 1) :
          Score(DraftTyped, issues[i]) >= Score(DraftTyped, issues[i + 1])

\* the records are the ones that were submitted, each as it was submitted
RecordsIntact ==
  LET submitted ==
        SimSeed \o [i \in 1..Len(SimIncoming) |->
                      SimRecord(Len(SimSeed) + i, SimIncoming[i].kind,
                                SimIncoming[i].subject, SimIncoming[i].description)]
  IN similar.allFeedbacks = SubSeq(submitted, 1, Len(similar.allFeedbacks))

\* C26: the advisory of the detector holds at most 3 records, each an existing
\* record of the draft's type and category whose score is at least 2, in order
\* of non-increasing score, and computing it leaves every record as it was.
C26_AdvisoryTopThree == AdvisoryOk /\ RecordsIntact

\* three records are listed, the first scoring higher than the last, and a
\* fourth record with a score of 2 is cut off
C26_Witness ==
  /\ lastCall.op = "typeDraft"
  /\ Len(similar.similarIssues) = 3
  /\ Score(DraftTyped, similar.similarIssues[1]) > Score(DraftTyped, similar.similarIssues[3])
  /\ \E j \in 1..Len(similar.allFeedbacks) :
       /\ SameKind(DraftTyped, similar.allFeedbacks[j])
       /\ Score(DraftTyped, similar.allFeedbacks[j]) >= 2
       /\ \A i \in 1..3 : similar.similarIssues[i] # similar.allFeedbacks[j]

\* C29: in the browser-only provider no two records have the same id, so that
\* a call by id reaches exactly one record.
C29_IdsPairwiseDistinct ==
  \A i, j \in 1..Len(feedbacks) : feedbacks[i].id = feedbacks[j].id => i = j

Restricted == {"analytics", "staff-inbox", "admin-users"}

\* the roles each restricted page is for
PermittedFor(target) ==
  CASE target = "analytics" ->
         {"university_management", "department_head", "course_coordinator", "dean"}
    [] target = "staff-inbox" ->
         {"academic_staff", "course_coordinator", "department_head", "dean",
          "student_affairs", "head_student_affairs", "facilities_management",
          "facilities_account"}
    [] target = "admin-users" -> {"ict_admin"}

ContentOf(target) ==
  CASE target = "analytics" -> "AnalyticsPage"
    [] target = "staff-inbox" -> "StaffInbox"
    [] target = "admin-users" -> "AdminUsersPage"

\* nothing rendered since the last state change shows a restricted page's
\* contents to a role the page is not for
RestrictedContentsGuarded ==
  \A i \in 1..Len(page.rendered) : \A target \in Restricted :
    page.rendered[i] = ContentOf(target) => page.user.role \in PermittedFor(target)

\* a step of AppContent that is the call `op`
AppCall(op) == lastCall'.op = op /\ lastCall' # lastCall

Disallowed(target) ==
  /\ target \in Restricted
  /\ page.user # NoUser
  /\ page.user.role \notin PermittedFor(target)

\* C30 as stated: restricted contents are rendered only for permitted roles,
\* and a disallowed navigation by a logged-in user ends on 'dashboard'.
C30_DisallowedEndsOnDashboard ==
  [][/\ RestrictedContentsGuarded'
     /\ \A target \in Pages :
          AppCall("handleNavigate") /\ lastCall'.arg = target /\ Disallowed(target)
            => page'.currentPage = "dashboard"]_vars

\* C30: restricted contents are rendered only for permitted roles, and a
\* disallowed navigation by a logged-in user ends on 'dashboard' when the user
\* is verified and on 'verify-email' when the user is not.
C30_RestrictedPagesGuarded ==
  [][/\ RestrictedContentsGuarded'
     /\ \A target \in Pages :
          AppCall("handleNavigate") /\ lastCall'.arg = target /\ Disallowed(target)
            => page'.currentPage =
                 IF page.user.verified THEN "dashboard" ELSE "verify-email"]_vars

\* an unverified student has asked for a restricted page and is on 'verify-email'
C30_Witness ==
  /\ lastCall.op = "handleNavigate"
  /\ lastCall.arg \in Restricted
  /\ page.user = [role |-> "student", verified |-> FALSE]
  /\ page.currentPage = "verify-email"
  /\ page.rendered = <<"StudentDashboard", "verify-email">>

ErrorKinds ==
  { "ValidationError", "InvalidStateError", "NotFoundError", "AuthorizationError",
    "PersistenceError" }

\* a step of the provider with requests in flight that is the call `op`
AsyncCall(op) == steps' # steps /\ lastCall'.op = op

\* C25: when the service rejects a request of the assign action with an error
\* of one of the kinds, that kind is what the action reports.
C25_RejectionKeepsItsKind ==
  [][AsyncCall("handleAssign") /\ lastCall'.arg \in ErrorKinds
       => lastCall'.result = lastCall'.arg]_vars

\* C27: when no request is in flight, every cached record is the service's
\* record of that id as the last committed mutation left it.
C27_CacheFollowsLastCommit ==
  inflight = <<>> =>
    \A k \in 1..Len(cache) : cache[k] = mapFeedback(server[cache[k].id])

AssignmentOf(store, id) ==
  [assignedTo |-> store[id].assigned_to_id, status |-> store[id].status,
   notes |-> store[id].notes]

\* C28: when the assign action of the modal reports a failure, the record's
\* assignee, status and notes are what they were before the action started.
C28_AssignAllOrNothing ==
  [][AsyncCall("handleAssign") /\ lastCall'.result # "ok" /\ lastCall'.id \in 1..Len(server)
       => AssignmentOf(server', lastCall'.id) = AssignmentOf(server, lastCall'.id)]_vars

====
